---- MODULE Spec2Model ----
(***************************************************************************)
(* A model of the temporal-correlation functions of pyICU/utils.py:        *)
(*   - time_based_violation        (SpecScan)                              *)
(*   - calculate_time_overlap      (SpecOverlap)                           *)
(*   - intervention_after_event, continous_intervention_after_event,       *)
(*     dosage_during_event         (SpecTables)                            *)
(*   - count_events_during_observation,                                    *)
(*     count_events_per_day_during_observation        (SpecCounts)         *)
(*   - the three aggregating operations on one pair of tables              *)
(*                                                    (SpecAggregates)     *)
(*   - is_timestamp, convert_timestamp_columns,                            *)
(*     check_or_convert_timestamp_columns             (SpecConvert)        *)
(*   - the analysis operations on tables as loaded    (SpecRaw)            *)
(*   - time_based_violation on incomplete records     (SpecKeys)           *)
(*   - get_time_based_violation_dict and the scan of the list it returns   *)
(*                                                    (SpecWindow)         *)
(* Timestamps are whole seconds since an arbitrary origin; a Timedelta of  *)
(* h hours is h * SecondsPerHour seconds.  Floating-point results are      *)
(* exact fractions <<n, d>> (d > 0), with d = 0 for the non-finite values. *)
(***************************************************************************)
EXTENDS Integers, Sequences, FiniteSets, TLC

VARIABLES
    \* ---- time_based_violation -------------------------------------------
    value_dict,      \* the records the for-loop has consumed so far, in order
    threshold,       \* argument threshold
    delta_value,     \* argument delta_value (hours)
    violation,       \* argument violation: "high" or "low"
    tmp,             \* the previous-row dict: << >> is {}, <<row>> a row
    violation_ids,   \* the list that is returned
    tmp_at,          \* history: index in value_dict of the row held in tmp
    emissions,       \* history: <<index of tmp, index of row>> per append
    \* ---- get_time_based_violation_dict ----------------------------------
    target_df,       \* the measurement table, a sequence of rows
    sample_df,       \* the sample table with the observation_time column
    delta_window,    \* argument delta: the length of the window in hours
    \* ---- calculate_time_overlap -----------------------------------------
    event_time,
    observation_time,
    intervention_time_start,
    intervention_time_end,
    overlap,         \* << >> before the call, <<returned value>> after it
    \* ---- the table operations -------------------------------------------
    event,           \* the event table, a sequence of rows
    intervention,    \* the intervention table of the point-in-time calls
    continuous_intervention,  \* the intervention table of the interval calls
    window,          \* argument observation_time (hours) of the table calls
    check_for_duplicates,
    call,            \* "none" before a call, else the function called
    result,          \* what the call returned
    raised,          \* "none", or the exception the call ended with
    \* ---- timestamp normalization ---------------------------------------
    df,              \* the table handed to the normalizer, a sequence of rows
    columns,         \* the list of column names handed over with it
    convert_datetimes,
    inputs_before    \* history: the caller's tables before each call

vars == << value_dict, threshold, delta_value, violation, tmp, violation_ids,
           tmp_at, emissions, target_df, sample_df, delta_window,
           event_time, observation_time, intervention_time_start,
           intervention_time_end, overlap,
           event, intervention, continuous_intervention, window,
           check_for_duplicates, call, result, raised,
           df, columns, convert_datetimes, inputs_before >>

windowVars == << target_df, sample_df, delta_window >>

scanVars == << value_dict, threshold, delta_value, violation, tmp,
               violation_ids, tmp_at, emissions, windowVars >>

overlapVars == << event_time, observation_time, intervention_time_start,
                  intervention_time_end, overlap >>

tableVars == << event, intervention, continuous_intervention, window,
               check_for_duplicates, call, result, raised >>

convertVars == << df, columns, convert_datetimes, inputs_before >>

-----------------------------------------------------------------------------
(* Bounds of the model *)

\* records in one measurement stream
MaxLen == 4

\* chart times of the stream are 0 .. MaxTick hours
MaxTick == 3

\* delta_value ranges over 1 .. MaxDelta hours
MaxDelta == 2

SecondsPerHour == 3600

\* the sample ids of the stream
Samples == {1, 2}

\* measurement values: below, at and above the thresholds
Values == {0, 1, 2}

Thresholds == {1}

Modes == {"high", "low"}

ChartTimes == {k * SecondsPerHour : k \in 0..MaxTick}

Rows == [stay_id_value : Samples, valuenum : Values, charttime : ChartTimes]

\* pd.Timedelta(h, unit="h"), in seconds
Timedelta(h) == h * SecondsPerHour

Range(s) == {s[i] : i \in 1..Len(s)}

\* timestamps of the overlap and table inputs are 0 .. MaxSlot half hours
MaxSlot == 4

\* observation windows range over 0 .. MaxWindow hours
MaxWindow == 2

Timestamps == {k * (SecondsPerHour \div 2) : k \in 0..MaxSlot}

Windows == 0..MaxWindow

\* pandas' missing timestamp: every ordering comparison with it is False
NaT == -1

Le(a, b) == a # NaT /\ b # NaT /\ a <= b

Lt(a, b) == a # NaT /\ b # NaT /\ a < b

\* timestamp + Timedelta, NaT when the timestamp is missing
Plus(t, seconds) == IF t = NaT THEN NaT ELSE t + seconds

-----------------------------------------------------------------------------
(* Floating-point values as exact fractions <<n, d>> in lowest terms, d > 0; *)
(* <<1, 0>> is +inf, <<-1, 0>> is -inf and <<0, 0>> is NaN.                  *)

Abs(x) == IF x < 0 THEN -x ELSE x

Sign(x) == IF x > 0 THEN 1 ELSE IF x < 0 THEN -1 ELSE 0

RECURSIVE GCD(_, _)
GCD(a, b) == IF b = 0 THEN a ELSE GCD(b, a % b)

Frac(n, d) ==
    IF d = 0 THEN << Sign(n), 0 >>
    ELSE LET g == GCD(Abs(n), Abs(d))
         IN  << Sign(d) * (n \div g), Abs(d) \div g >>

NaN == << 0, 0 >>

Zero == << 0, 1 >>

IsNaN(x) == x = NaN

IsFinite(x) == x[2] # 0

\* x / y of two floats: a nonzero value over zero is infinite, 0/0 is NaN
FDiv(x, y) ==
    IF IsNaN(x) \/ IsNaN(y) THEN NaN
    ELSE IF ~IsFinite(x) /\ ~IsFinite(y) THEN NaN
    ELSE IF ~IsFinite(y) THEN Zero
    ELSE IF ~IsFinite(x) THEN << x[1] * (IF y[1] < 0 THEN -1 ELSE 1), 0 >>
    ELSE Frac(x[1] * y[2], x[2] * y[1])

\* x * y of two floats: inf * 0 is NaN
FMul(x, y) ==
    IF IsNaN(x) \/ IsNaN(y) THEN NaN
    ELSE IF IsFinite(x) /\ IsFinite(y) THEN Frac(x[1] * y[1], x[2] * y[2])
    ELSE << Sign(x[1]) * Sign(y[1]), 0 >>

\* x + y of two floats: inf + -inf is NaN
FAdd(x, y) ==
    IF IsNaN(x) \/ IsNaN(y) THEN NaN
    ELSE IF IsFinite(x) /\ IsFinite(y)
         THEN Frac(x[1] * y[2] + y[1] * x[2], x[2] * y[2])
    ELSE IF ~IsFinite(x) /\ ~IsFinite(y)
         THEN (IF x = y THEN x ELSE NaN)
    ELSE IF IsFinite(x) THEN y ELSE x

FLe(x, y) == x[1] * y[2] <= y[1] * x[2]

-----------------------------------------------------------------------------
(* calculate_time_overlap *)

Max(a, b) == IF a >= b THEN a ELSE b

Min(a, b) == IF a <= b THEN a ELSE b

\* calculate_time_overlap with the end of the overlap not cut at the window
OverlapEndNotCut(ev, hours, start, end) ==
    LET observation_window_end == Plus(ev, Timedelta(hours))
    IN  IF Le(start, observation_window_end) /\ Le(ev, end)
        THEN Frac(end - Max(start, ev), SecondsPerHour)
        ELSE Zero

\* calculate_time_overlap without the test that the interval meets the window
OverlapUnguarded(ev, hours, start, end) ==
    LET observation_window_end == Plus(ev, Timedelta(hours))
    IN  Frac(Min(end, observation_window_end) - Max(start, ev), SecondsPerHour)

\* lines 223-238; (overlap_end - overlap_start).total_seconds() / 3600
calculate_time_overlap(ev, hours, start, end) ==
    LET observation_window_end == Plus(ev, Timedelta(hours))
    IN  IF Le(start, observation_window_end) /\ Le(ev, end)
        THEN LET overlap_start == Max(start, ev)
                 overlap_end == Min(end, observation_window_end)
             IN  Frac(overlap_end - overlap_start, SecondsPerHour)
        ELSE Zero

-----------------------------------------------------------------------------
(* The table operations.  A table is a sequence of rows, a row a record of  *)
(* its columns; the timestamp columns hold canonical timestamps.            *)

\* rows in an event table
MaxEvents == 2

\* rows in an intervention table
MaxInterventions == 2

Subjects == {1, 2}

EventTimes == {0, SecondsPerHour \div 2}

TableTimes == {k * (SecondsPerHour \div 2) : k \in 0..3}

Amounts == {60}

TableWindows == {1}

EventRows == [subject_id : Subjects, event_time : EventTimes]

PointRows == [subject_id : Subjects, charttime : TableTimes \cup {NaT}]

\* intervals run forward in time; the one instantaneous administration
\* drawn (start = end) is given at half past
IntervalRows ==
    {r \in [subject_id : Subjects, starttime : TableTimes,
            endtime : TableTimes, amount : Amounts] :
        \/ r.starttime < r.endtime
        \/ r.starttime = r.endtime /\ r.starttime = SecondsPerHour \div 2}

\* all tables of at most n rows drawn from rows
TablesOf(rows, n) == UNION {[1..k -> rows] : k \in 0..n}

RECURSIVE Flatten(_)
Flatten(seqs) ==
    IF seqs = << >> THEN << >>
    ELSE Flatten(SubSeq(seqs, 1, Len(seqs) - 1)) \o seqs[Len(seqs)]

\* the columns of an event row and of an intervention row in one joined row;
\* a numeric column that can hold NaN after the join is a float column
JoinRow(e, v) ==
    IF "amount" \in DOMAIN v
    THEN e @@ [v EXCEPT !.amount = Frac(v.amount, 1)]
    ELSE e @@ v

\* the right-hand columns of a left-joined row without a match
Unmatched == [starttime |-> NaT, endtime |-> NaT, amount |-> NaN]

Matches(e, right) ==
    LET hit == SelectSeq(right, LAMBDA v : v.subject_id = e.subject_id)
    IN  [k \in 1..Len(hit) |-> JoinRow(e, hit[k])]

\* pd.merge(left, right, on=sample_indicator, how="inner")
MergeInner(left, right) ==
    Flatten([i \in 1..Len(left) |-> Matches(left[i], right)])

\* pd.merge(left, right, on=sample_indicator, how="left")
MergeLeft(left, right) ==
    Flatten([i \in 1..Len(left) |->
                IF Matches(left[i], right) = << >>
                THEN << left[i] @@ Unmatched >>
                ELSE Matches(left[i], right)])

\* DataFrame.drop_duplicates() and Series.unique(): first occurrences, in order
RECURSIVE DropDuplicates(_)
DropDuplicates(rows) ==
    IF rows = << >> THEN << >>
    ELSE LET before == DropDuplicates(SubSeq(rows, 1, Len(rows) - 1))
             last == rows[Len(rows)]
         IN  IF last \in Range(before) THEN before ELSE Append(before, last)

Column(rows, c) == [k \in 1..Len(rows) |-> rows[k][c]]

\* the group keys of a groupby, ascending
RECURSIVE SortedKeys(_)
SortedKeys(keys) ==
    IF keys = {} THEN << >>
    ELSE LET least == CHOOSE k \in keys : \A other \in keys : k <= other
         IN  << least >> \o SortedKeys(keys \ {least})

\* the "sum" aggregation of a float column: missing values are skipped
RECURSIVE SumSkipNa(_)
SumSkipNa(xs) ==
    IF xs = << >> THEN Zero
    ELSE LET before == SumSkipNa(SubSeq(xs, 1, Len(xs) - 1))
             last == xs[Len(xs)]
         IN  IF IsNaN(last) THEN before ELSE FAdd(before, last)

\* intervention_after_event with the end of the window excluded
InterventionBeforeWindowEnd(ev, interv, hours) ==
    LET time_window == Timedelta(hours)
        merged_df == MergeInner(ev, interv)
        kept == SelectSeq(merged_df, LAMBDA r :
                    /\ Lt(r.charttime, Plus(r.event_time, time_window))
                    /\ Le(r.event_time, r.charttime))
    IN  DropDuplicates(Column(kept, "subject_id"))

\* lines 113-123
intervention_after_event(ev, interv, hours) ==
    LET time_window == Timedelta(hours)
        merged_df == MergeInner(ev, interv)
        intervention_after_event_df ==
            SelectSeq(merged_df, LAMBDA r :
                /\ Le(r.charttime, Plus(r.event_time, time_window))
                /\ Le(r.event_time, r.charttime))
    IN  DropDuplicates(Column(intervention_after_event_df, "subject_id"))

\* lines 199-220
continous_intervention_after_event(ev, interv, hours) ==
    LET time_window == Timedelta(hours)
        merged_df == MergeInner(ev, interv)
        continous_intervention_after_event_df ==
            SelectSeq(merged_df, LAMBDA r :
                \/ /\ Lt(r.event_time, r.starttime)
                   /\ Lt(r.starttime, Plus(r.event_time, time_window))
                \/ /\ Lt(r.starttime, r.event_time)
                   /\ Lt(r.event_time, r.endtime))
    IN  DropDuplicates(Column(continous_intervention_after_event_df,
                              "subject_id"))

\* Timedelta.total_seconds() of end - start as a float, NaN when missing
DurationSeconds(start, end) ==
    IF start = NaT \/ end = NaT THEN NaN ELSE Frac(end - start, 1)

\* DosageDuringOverlap with the rate left per second
DosagePerSecondRate(r, hours) ==
    LET duration_of_intervention == DurationSeconds(r.starttime, r.endtime)
        dosage_per_hour == FDiv(r.amount, duration_of_intervention)
        overlap_in_hours ==
            calculate_time_overlap(r.event_time, hours, r.starttime, r.endtime)
    IN  FMul(dosage_per_hour, overlap_in_hours)

\* lines 319-343: the dosage_during_overlap column of one joined row
DosageDuringOverlap(r, hours) ==
    LET duration_of_intervention == DurationSeconds(r.starttime, r.endtime)
        dosage_per_hour ==
            FMul(FDiv(r.amount, duration_of_intervention),
                 Frac(SecondsPerHour, 1))
        overlap_in_hours ==
            calculate_time_overlap(r.event_time, hours, r.starttime, r.endtime)
    IN  FMul(dosage_per_hour, overlap_in_hours)

\* lines 345-356: groupby(sample_indicator).agg(sum), renamed, index reset
GroupSum(rows, hours) ==
    LET keys == SortedKeys(Range(Column(rows, "subject_id")))
    IN  [k \in 1..Len(keys) |->
            [subject_id |-> keys[k],
             total_amount |->
                SumSkipNa(LET mine == SelectSeq(rows, LAMBDA r :
                                          r.subject_id = keys[k])
                          IN  [m \in 1..Len(mine) |->
                                  DosageDuringOverlap(mine[m], hours)])]]

\* dosage_during_event joining with how="inner"
DosageInnerJoin(ev, interv, hours, dedup) ==
    LET merged_df == MergeInner(ev, interv)
        rows == IF dedup = TRUE THEN DropDuplicates(merged_df) ELSE merged_df
    IN  GroupSum(rows, hours)

\* dosage_during_event with drop_duplicates(subset=["subject_id"])
DosageFirstRowPerSubject(ev, interv, hours, dedup) ==
    LET merged_df == MergeLeft(ev, interv)
        keys == SortedKeys(Range(Column(merged_df, "subject_id")))
        first(s) == CHOOSE k \in 1..Len(merged_df) :
                        /\ merged_df[k].subject_id = s
                        /\ \A j \in 1..(k - 1) : merged_df[j].subject_id # s
        rows == IF dedup = TRUE
                THEN [i \in 1..Len(keys) |-> merged_df[first(keys[i])]]
                ELSE merged_df
    IN  GroupSum(rows, hours)

\* dosage_during_event that never drops duplicated joined rows
DosageKeepsDuplicates(ev, interv, hours, dedup) ==
    GroupSum(MergeLeft(ev, interv), hours)

\* lines 315-356
dosage_during_event(ev, interv, hours, dedup) ==
    LET merged_df == MergeLeft(ev, interv)
        rows == IF dedup = TRUE THEN DropDuplicates(merged_df) ELSE merged_df
    IN  GroupSum(rows, hours)

-----------------------------------------------------------------------------
(* time_based_violation *)

\* The scan state carried from one iteration to the next.  branch names the
\* path the iteration took: "keyerror" (tmp was {}), "newsample", "reset",
\* "hold", "emit", or "fall" when no branch of the block applied.
ScanState(t, ids, branch) ==
    [tmp |-> t, violation_ids |-> ids, branch |-> branch]

\* the paths that end the iteration with `continue`
Continued(st) == st.branch \in {"keyerror", "newsample", "reset", "hold"}

\* the paths that execute `tmp = row`
Rebinds(st) == st.branch \in {"keyerror", "newsample", "reset", "emit"}

\* LowBranch with the reset test written `value >= threshold`
LowBranchResetAtThreshold(thr, delta, mode, st, row) ==
    LET value == row.valuenum
        previous_value == st.tmp[1].valuenum
        charttime == row.charttime
        previous_charttime == st.tmp[1].charttime
    IN  IF mode # "low" THEN st
        ELSE IF value >= thr
             THEN ScanState(<<row>>, st.violation_ids, "reset")
        ELSE IF (value <= thr /\ previous_value <= thr)
                /\ charttime - previous_charttime < Timedelta(delta)
             THEN ScanState(st.tmp, st.violation_ids, "hold")
        ELSE IF (value <= thr /\ previous_value <= thr)
                /\ charttime - previous_charttime >= Timedelta(delta)
             THEN ScanState(<<row>>,
                            Append(st.violation_ids, row.stay_id_value), "emit")
        ELSE st

\* lines 576-597: the block under `if violation == "low"`
LowBranch(thr, delta, mode, st, row) ==
    LET value == row.valuenum
        previous_value == st.tmp[1].valuenum
        charttime == row.charttime
        previous_charttime == st.tmp[1].charttime
    IN  IF mode # "low" THEN st
        ELSE IF value > thr
             THEN ScanState(<<row>>, st.violation_ids, "reset")
        ELSE IF (value <= thr /\ previous_value <= thr)
                /\ charttime - previous_charttime < Timedelta(delta)
             THEN ScanState(st.tmp, st.violation_ids, "hold")
        ELSE IF (value <= thr /\ previous_value <= thr)
                /\ charttime - previous_charttime >= Timedelta(delta)
             THEN ScanState(<<row>>,
                            Append(st.violation_ids, row.stay_id_value), "emit")
        ELSE st

\* HighBranch that stores a breaching record met by a stored record below
\* the threshold
HighBranchRestartsOnBreach(thr, delta, mode, st, row) ==
    LET value == row.valuenum
        previous_value == st.tmp[1].valuenum
        charttime == row.charttime
        previous_charttime == st.tmp[1].charttime
    IN  IF mode # "high" THEN st
        ELSE IF value < thr
             THEN ScanState(<<row>>, st.violation_ids, "reset")
        ELSE IF (value >= thr /\ previous_value >= thr)
                /\ charttime - previous_charttime < Timedelta(delta)
             THEN ScanState(st.tmp, st.violation_ids, "hold")
        ELSE IF (value >= thr /\ previous_value >= thr)
                /\ charttime - previous_charttime >= Timedelta(delta)
             THEN ScanState(<<row>>,
                            Append(st.violation_ids, row.stay_id_value), "emit")
        ELSE ScanState(<<row>>, st.violation_ids, "reset")

\* HighBranch that wants strictly more than delta between the two records
HighBranchStrictlyLater(thr, delta, mode, st, row) ==
    LET value == row.valuenum
        previous_value == st.tmp[1].valuenum
        charttime == row.charttime
        previous_charttime == st.tmp[1].charttime
    IN  IF mode # "high" THEN st
        ELSE IF value < thr
             THEN ScanState(<<row>>, st.violation_ids, "reset")
        ELSE IF (value >= thr /\ previous_value >= thr)
                /\ charttime - previous_charttime <= Timedelta(delta)
             THEN ScanState(st.tmp, st.violation_ids, "hold")
        ELSE IF (value >= thr /\ previous_value >= thr)
                /\ charttime - previous_charttime > Timedelta(delta)
             THEN ScanState(<<row>>,
                            Append(st.violation_ids, row.stay_id_value), "emit")
        ELSE st

\* HighBranch whose hold path stores the record it skips
HighBranchHoldRebinds(thr, delta, mode, st, row) ==
    LET value == row.valuenum
        previous_value == st.tmp[1].valuenum
        charttime == row.charttime
        previous_charttime == st.tmp[1].charttime
    IN  IF mode # "high" THEN st
        ELSE IF value < thr
             THEN ScanState(<<row>>, st.violation_ids, "reset")
        ELSE IF (value >= thr /\ previous_value >= thr)
                /\ charttime - previous_charttime < Timedelta(delta)
             THEN ScanState(<<row>>, st.violation_ids, "hold")
        ELSE IF (value >= thr /\ previous_value >= thr)
                /\ charttime - previous_charttime >= Timedelta(delta)
             THEN ScanState(<<row>>,
                            Append(st.violation_ids, row.stay_id_value), "emit")
        ELSE st

\* HighBranch with a sub-threshold record skipped instead of stored in tmp
HighBranchSkipsLowRecord(thr, delta, mode, st, row) ==
    LET value == row.valuenum
        previous_value == st.tmp[1].valuenum
        charttime == row.charttime
        previous_charttime == st.tmp[1].charttime
    IN  IF mode # "high" THEN st
        ELSE IF value < thr
             THEN ScanState(st.tmp, st.violation_ids, "hold")
        ELSE IF (value >= thr /\ previous_value >= thr)
                /\ charttime - previous_charttime < Timedelta(delta)
             THEN ScanState(st.tmp, st.violation_ids, "hold")
        ELSE IF (value >= thr /\ previous_value >= thr)
                /\ charttime - previous_charttime >= Timedelta(delta)
             THEN ScanState(<<row>>,
                            Append(st.violation_ids, row.stay_id_value), "emit")
        ELSE st

\* lines 599-614: the block under `if violation == "high"`
HighBranch(thr, delta, mode, st, row) ==
    LET value == row.valuenum
        previous_value == st.tmp[1].valuenum
        charttime == row.charttime
        previous_charttime == st.tmp[1].charttime
    IN  IF mode # "high" THEN st
        ELSE IF value < thr
             THEN ScanState(<<row>>, st.violation_ids, "reset")
        ELSE IF (value >= thr /\ previous_value >= thr)
                /\ charttime - previous_charttime < Timedelta(delta)
             THEN ScanState(st.tmp, st.violation_ids, "hold")
        ELSE IF (value >= thr /\ previous_value >= thr)
                /\ charttime - previous_charttime >= Timedelta(delta)
             THEN ScanState(<<row>>,
                            Append(st.violation_ids, row.stay_id_value), "emit")
        ELSE st

\* ScanStep that compares a record with the stored one whatever their
\* sample ids
ScanStepAcrossSamples(thr, delta, mode, t, ids, row) ==
    IF t = << >>
    THEN ScanState(<<row>>, ids, "keyerror")
    ELSE LET low == LowBranch(thr, delta, mode,
                              ScanState(t, ids, "fall"), row)
         IN  IF Continued(low) THEN low
             ELSE HighBranch(thr, delta, mode, low, row)

\* lines 566-622: one iteration of the loop over value_dict.  Reading
\* tmp[sample_indicator] of the empty dict raises KeyError, which the
\* except clause turns into tmp = row.
ScanStep(thr, delta, mode, t, ids, row) ==
    IF t = << >>
    THEN ScanState(<<row>>, ids, "keyerror")
    ELSE IF row.stay_id_value = t[1].stay_id_value
         THEN LET low == LowBranch(thr, delta, mode,
                                   ScanState(t, ids, "fall"), row)
              IN  IF Continued(low) THEN low
                  ELSE HighBranch(thr, delta, mode, low, row)
         ELSE ScanState(<<row>>, ids, "newsample")

\* lines 562-624: the whole function as a fold of ScanStep over a stream
RECURSIVE time_based_violation(_, _, _, _)
time_based_violation(thr, delta, stream, mode) ==
    IF stream = << >>
    THEN ScanState(<< >>, << >>, "fall")
    ELSE LET before == time_based_violation(thr, delta,
                           SubSeq(stream, 1, Len(stream) - 1), mode)
         IN  ScanStep(thr, delta, mode, before.tmp, before.violation_ids,
                      stream[Len(stream)])

\* the stream is sorted by (sample id, time) ascending
SortedAfter(stream, row) ==
    IF stream = << >> THEN TRUE
    ELSE LET last == stream[Len(stream)]
         IN  \/ last.stay_id_value < row.stay_id_value
             \/ /\ last.stay_id_value = row.stay_id_value
                /\ last.charttime <= row.charttime

InitOverlapIdle ==
    /\ event_time = 0
    /\ observation_time = 0
    /\ intervention_time_start = 0
    /\ intervention_time_end = 0
    /\ overlap = << >>

InitTablesIdle ==
    /\ event = << >>
    /\ intervention = << >>
    /\ continuous_intervention = << >>
    /\ window = 0
    /\ check_for_duplicates = TRUE
    /\ call = "none"
    /\ result = << >>
    /\ raised = "none"

InitConvertIdle ==
    /\ df = << >>
    /\ columns = << >>
    /\ convert_datetimes = FALSE
    /\ inputs_before = << >>

InitWindowIdle ==
    /\ target_df = << >>
    /\ sample_df = << >>
    /\ delta_window = 0

InitScanIdle ==
    /\ value_dict = << >>
    /\ threshold = 0
    /\ delta_value = 0
    /\ violation = "high"
    /\ tmp = << >>
    /\ violation_ids = << >>
    /\ tmp_at = 0
    /\ emissions = << >>
    /\ InitWindowIdle

\* lines 562-565: the state on entry of time_based_violation
InitScan ==
    /\ value_dict = << >>
    /\ threshold \in Thresholds
    /\ delta_value \in 1..MaxDelta
    /\ violation \in Modes
    /\ tmp = << >>
    /\ violation_ids = << >>
    /\ tmp_at = 0
    /\ emissions = << >>
    /\ InitWindowIdle
    /\ InitOverlapIdle
    /\ InitTablesIdle
    /\ InitConvertIdle

\* lines 566-622: the loop takes the next record of the sorted stream
Iterate(row) ==
    /\ Len(value_dict) < MaxLen
    /\ SortedAfter(value_dict, row)
    /\ LET st == ScanStep(threshold, delta_value, violation, tmp,
                          violation_ids, row)
           at == Len(value_dict) + 1
       IN  /\ value_dict' = Append(value_dict, row)
           /\ tmp' = st.tmp
           /\ violation_ids' = st.violation_ids
           /\ tmp_at' = IF Rebinds(st) THEN at ELSE tmp_at
           /\ emissions' = IF st.branch = "emit"
                           THEN Append(emissions, <<tmp_at, at>>)
                           ELSE emissions
    /\ UNCHANGED << threshold, delta_value, violation >>
    /\ UNCHANGED windowVars
    /\ UNCHANGED overlapVars
    /\ UNCHANGED tableVars
    /\ UNCHANGED convertVars

NextScan == \E row \in Rows : Iterate(row)

SpecScan == InitScan /\ [][NextScan]_vars

-----------------------------------------------------------------------------
(* calculate_time_overlap as a call on drawn arguments *)

InitOverlap ==
    /\ event_time \in Timestamps
    /\ observation_time \in Windows
    /\ intervention_time_start \in Timestamps
    /\ intervention_time_end \in Timestamps
    /\ overlap = << >>
    /\ InitScanIdle
    /\ InitTablesIdle
    /\ InitConvertIdle

\* lines 223-238: the call returns
CallOverlap ==
    /\ overlap = << >>
    /\ overlap' = << calculate_time_overlap(event_time, observation_time,
                         intervention_time_start, intervention_time_end) >>
    /\ UNCHANGED << event_time, observation_time, intervention_time_start,
                    intervention_time_end >>
    /\ UNCHANGED scanVars
    /\ UNCHANGED tableVars
    /\ UNCHANGED convertVars

NextOverlap == CallOverlap

SpecOverlap == InitOverlap /\ [][NextOverlap]_vars

-----------------------------------------------------------------------------
(* The table operations as calls on drawn tables *)

InitTables ==
    /\ event \in TablesOf(EventRows, MaxEvents) \ {<< >>}
    /\ \/ /\ intervention \in TablesOf(PointRows, MaxInterventions)
          /\ continuous_intervention = << >>
       \/ /\ intervention = << >>
          /\ continuous_intervention \in TablesOf(IntervalRows, MaxInterventions)
    /\ window \in TableWindows
    /\ check_for_duplicates = TRUE
    /\ call = "none"
    /\ result = << >>
    /\ raised = "none"
    /\ InitScanIdle
    /\ InitOverlapIdle
    /\ InitConvertIdle

\* lines 50-123, called with the point-shaped intervention table
CallInterventionAfterEvent ==
    /\ call = "none"
    /\ continuous_intervention = << >>
    /\ call' = "intervention_after_event"
    /\ result' = intervention_after_event(event, intervention, window)
    /\ UNCHANGED << event, intervention, continuous_intervention, window,
                    check_for_duplicates, raised >>
    /\ UNCHANGED scanVars
    /\ UNCHANGED overlapVars
    /\ UNCHANGED convertVars

\* lines 126-220, called with the interval-shaped intervention table
CallContinousInterventionAfterEvent ==
    /\ call = "none"
    /\ intervention = << >>
    /\ call' = "continous_intervention_after_event"
    /\ result' = continous_intervention_after_event(
                     event, continuous_intervention, window)
    /\ UNCHANGED << event, intervention, continuous_intervention, window,
                    check_for_duplicates, raised >>
    /\ UNCHANGED scanVars
    /\ UNCHANGED overlapVars
    /\ UNCHANGED convertVars

\* lines 241-356, called with the interval-shaped intervention table
CallDosageDuringEvent(dedup) ==
    /\ call = "none"
    /\ intervention = << >>
    /\ call' = "dosage_during_event"
    /\ check_for_duplicates' = dedup
    /\ result' = dosage_during_event(event, continuous_intervention, window,
                                     dedup)
    /\ UNCHANGED << event, intervention, continuous_intervention, window,
                    raised >>
    /\ UNCHANGED scanVars
    /\ UNCHANGED overlapVars
    /\ UNCHANGED convertVars

NextTables ==
    \/ CallInterventionAfterEvent
    \/ CallContinousInterventionAfterEvent
    \/ \E dedup \in BOOLEAN : CallDosageDuringEvent(dedup)

SpecTables == InitTables /\ [][NextTables]_vars

-----------------------------------------------------------------------------
(* count_events_during_observation and
   count_events_per_day_during_observation *)

SecondsPerDay == 86400

\* events at midnight and at 23:00 of day 0
CountEventTimes == {0, SecondsPerDay - SecondsPerHour}

\* interventions at 00:00 and 23:00 of day 0 and at 00:00 and 01:00 of day 1
CountTimes ==
    {0, SecondsPerDay - SecondsPerHour, SecondsPerDay,
     SecondsPerDay + SecondsPerHour}

CountWindows == {1, 2}

CountEventRows == [subject_id : Subjects, event_time : CountEventTimes]

CountPointRows == [subject_id : Subjects, charttime : CountTimes \cup {NaT}]

\* dropna(subset=[c]) on a timestamp column
DropNa(rows, c) == SelectSeq(rows, LAMBDA r : r[c] # NaT)

\* Series.dt.floor('d')
FloorDay(t) == (t \div SecondsPerDay) * SecondsPerDay

\* the "sum" aggregation of an integer column
RECURSIVE SumInt(_)
SumInt(col) ==
    IF col = << >> THEN 0 ELSE Head(col) + SumInt(Tail(col))

\* lines 430-437: apply(..., axis=1) on a frame without rows gives back a
\* frame, and assigning a frame of several columns to one column raises
CountRaises(ev, interv) ==
    DropNa(MergeInner(ev, interv), "charttime") = << >>

\* count_events_during_observation with the window open at its end
CountBeforeWindowEnd(ev, interv, hours) ==
    LET merged_df == DropNa(MergeInner(ev, interv), "charttime")
        during(r) ==
            IF /\ r.charttime >= r.event_time
               /\ r.charttime < r.event_time + Timedelta(hours)
            THEN 1 ELSE 0
        keys == SortedKeys(Range(Column(merged_df, "subject_id")))
    IN  [k \in 1..Len(keys) |->
            LET mine == SelectSeq(merged_df,
                                  LAMBDA r : r.subject_id = keys[k])
            IN  [subject_id |-> keys[k],
                 total_interventions |->
                     SumInt([m \in 1..Len(mine) |-> during(mine[m])])]]

\* count_events_during_observation keeping rows with a missing time
CountKeepsMissingTimes(ev, interv, hours) ==
    LET merged_df == MergeInner(ev, interv)
        during(r) ==
            IF /\ Le(r.event_time, r.charttime)
               /\ Le(r.charttime, Plus(r.event_time, Timedelta(hours)))
            THEN 1 ELSE 0
        keys == SortedKeys(Range(Column(merged_df, "subject_id")))
    IN  [k \in 1..Len(keys) |->
            LET mine == SelectSeq(merged_df,
                                  LAMBDA r : r.subject_id = keys[k])
            IN  [subject_id |-> keys[k],
                 total_interventions |->
                     SumInt([m \in 1..Len(mine) |-> during(mine[m])])]]

\* lines 423-445
count_events_during_observation(ev, interv, hours) ==
    LET merged_df == DropNa(MergeInner(ev, interv), "charttime")
        during(r) ==
            IF /\ r.charttime >= r.event_time
               /\ r.charttime <= r.event_time + Timedelta(hours)
            THEN 1 ELSE 0
        keys == SortedKeys(Range(Column(merged_df, "subject_id")))
    IN  [k \in 1..Len(keys) |->
            LET mine == SelectSeq(merged_df,
                                  LAMBDA r : r.subject_id = keys[k])
            IN  [subject_id |-> keys[k],
                 total_interventions |->
                     SumInt([m \in 1..Len(mine) |-> during(mine[m])])]]

\* the group keys of a groupby on (sample, day), ascending
RECURSIVE SortedPairs(_)
SortedPairs(keys) ==
    IF keys = {} THEN << >>
    ELSE LET least == CHOOSE k \in keys : \A other \in keys :
                          \/ k[1] < other[1]
                          \/ k[1] = other[1] /\ k[2] <= other[2]
         IN  << least >> \o SortedPairs(keys \ {least})

\* lines 514-521
\* DuringObservation with the window open at the event time
DuringObservationAfterEvent(rows, hours) ==
    SelectSeq(rows, LAMBDA r : /\ r.charttime > r.event_time
                               /\ r.charttime
                                    <= r.event_time + Timedelta(hours))

DuringObservation(rows, hours) ==
    SelectSeq(rows, LAMBDA r : /\ r.charttime >= r.event_time
                               /\ r.charttime
                                    <= r.event_time + Timedelta(hours))

\* lines 527-529
SizePerDay(rows) ==
    LET keys == SortedPairs({<< rows[k].subject_id, rows[k].charttime_day >> :
                                k \in 1..Len(rows)})
    IN  [k \in 1..Len(keys) |->
            [subject_id |-> keys[k][1],
             charttime_day |-> keys[k][2],
             count_per_day |->
                 Len(SelectSeq(rows,
                        LAMBDA r : << r.subject_id, r.charttime_day >>
                                       = keys[k]))]]

\* count_events_per_day_during_observation with days counted in 24 hour
\* periods from the event
CountPerDaySinceEvent(ev, interv, hours) ==
    LET merged_df == DuringObservation(
                         DropNa(MergeInner(ev, interv), "charttime"), hours)
    IN  SizePerDay([k \in 1..Len(merged_df) |->
            merged_df[k] @@
            [charttime_day |->
                merged_df[k].event_time
                + FloorDay(merged_df[k].charttime - merged_df[k].event_time)]])

\* lines 511-531
count_events_per_day_during_observation(ev, interv, hours) ==
    LET merged_df == DuringObservation(
                         DropNa(MergeInner(ev, interv), "charttime"), hours)
    IN  SizePerDay([k \in 1..Len(merged_df) |->
            merged_df[k] @@
            [charttime_day |-> FloorDay(merged_df[k].charttime)]])

InitCounts ==
    /\ event \in TablesOf(CountEventRows, MaxEvents) \ {<< >>}
    /\ intervention \in TablesOf(CountPointRows, MaxInterventions)
    /\ continuous_intervention = << >>
    /\ window \in CountWindows
    /\ check_for_duplicates = TRUE
    /\ call = "none"
    /\ result = << >>
    /\ raised = "none"
    /\ InitScanIdle
    /\ InitOverlapIdle
    /\ InitConvertIdle

\* lines 359-445
CallCountEventsDuringObservation ==
    /\ call = "none"
    /\ call' = "count_events_during_observation"
    /\ IF CountRaises(event, intervention)
       THEN /\ raised' = "ValueError"
            /\ result' = result
       ELSE /\ raised' = "none"
            /\ result' = count_events_during_observation(
                             event, intervention, window)
    /\ UNCHANGED << event, intervention, continuous_intervention, window,
                    check_for_duplicates >>
    /\ UNCHANGED scanVars
    /\ UNCHANGED overlapVars
    /\ UNCHANGED convertVars

\* lines 448-531
CallCountEventsPerDayDuringObservation ==
    /\ call = "none"
    /\ call' = "count_events_per_day_during_observation"
    /\ result' = count_events_per_day_during_observation(
                     event, intervention, window)
    /\ UNCHANGED << event, intervention, continuous_intervention, window,
                    check_for_duplicates, raised >>
    /\ UNCHANGED scanVars
    /\ UNCHANGED overlapVars
    /\ UNCHANGED convertVars

NextCounts ==
    \/ CallCountEventsDuringObservation
    \/ CallCountEventsPerDayDuringObservation

SpecCounts == InitCounts /\ [][NextCounts]_vars

-----------------------------------------------------------------------------
(* The three aggregating operations called on one pair of tables: events   *)
(* at 00:00 and 00:30, a one-hour window, point interventions at 00:30,    *)
(* 01:30 or without a time, interval interventions from 00:00 to 01:00,    *)
(* 00:30 to 01:30 and 01:30 to 02:00, and the instantaneous one at 00:30.  *)

AggregatePointRows ==
    {r \in PointRows :
        r.charttime \in {SecondsPerHour \div 2,
                         3 * (SecondsPerHour \div 2), NaT}}

AggregateIntervals ==
    LET half == SecondsPerHour \div 2
    IN  {<< 0, 2 * half >>, << half, 3 * half >>, << 3 * half, 4 * half >>,
         << half, half >>}

AggregateIntervalRows ==
    {[subject_id |-> s, starttime |-> i[1], endtime |-> i[2], amount |-> a] :
        s \in Subjects, i \in AggregateIntervals, a \in Amounts}

InitAggregates ==
    /\ event \in TablesOf(EventRows, MaxEvents) \ {<< >>}
    /\ \/ /\ intervention \in TablesOf(AggregatePointRows, MaxInterventions)
          /\ continuous_intervention = << >>
       \/ /\ intervention = << >>
          /\ continuous_intervention
                \in TablesOf(AggregateIntervalRows, MaxInterventions)
    /\ window \in TableWindows
    /\ check_for_duplicates = TRUE
    /\ call = "none"
    /\ result = << >>
    /\ raised = "none"
    /\ InitScanIdle
    /\ InitOverlapIdle
    /\ InitConvertIdle

NextAggregates ==
    \/ \E dedup \in BOOLEAN : CallDosageDuringEvent(dedup)
    \/ CallCountEventsDuringObservation
    \/ CallCountEventsPerDayDuringObservation

SpecAggregates == InitAggregates /\ [][NextAggregates]_vars

-----------------------------------------------------------------------------
(* is_timestamp, convert_timestamp_columns and
   check_or_convert_timestamp_columns *)

\* the cells of a table as it is loaded: text, a pandas Timestamp (seconds
\* since 2023-10-13 00:00:00), an integer, or a missing value (NaN in a text
\* column, NaT in a datetime column)
Text(chars) == [kind |-> "str", text |-> chars, value |-> 0]

Timestamp(t) == [kind |-> "Timestamp", text |-> << >>, value |-> t]

Integer(n) == [kind |-> "int", text |-> << >>, value |-> n]

NaNCell == [kind |-> "NaN", text |-> << >>, value |-> 0]

NaTCell == [kind |-> "NaT", text |-> << >>, value |-> 0]

\* Series.dropna() drops these
IsMissing(cell) == cell.kind \in {"NaN", "NaT"}

Digit == << "0", "1", "2", "3", "4", "5", "6", "7", "8", "9" >>

TwoDigits(n) == << Digit[(n \div 10) + 1], Digit[(n % 10) + 1] >>

DigitValue(c) == CHOOSE n \in 0..9 : Digit[n + 1] = c

TwoDigitValue(s, i) == 10 * DigitValue(s[i]) + DigitValue(s[i + 1])

\* str() of a Timestamp: "2023-10-DD HH:MM:SS"
Format(t) ==
    << "2", "0", "2", "3", "-", "1", "0", "-" >>
    \o TwoDigits(13 + t \div SecondsPerDay) \o << " " >>
    \o TwoDigits((t % SecondsPerDay) \div SecondsPerHour) \o << ":" >>
    \o TwoDigits((t % SecondsPerHour) \div 60) \o << ":" >>
    \o TwoDigits(t % 60)

\* pd.to_datetime of a text "2023-10-DD HH:MM:SS"
Parse(s) ==
    (TwoDigitValue(s, 9) - 13) * SecondsPerDay
    + TwoDigitValue(s, 12) * SecondsPerHour
    + TwoDigitValue(s, 15) * 60
    + TwoDigitValue(s, 18)

\* str(s)
StrOf(cell) ==
    CASE cell.kind = "str" -> cell.text
      [] cell.kind = "Timestamp" -> Format(cell.value)
      [] cell.kind = "int" ->
             IF cell.value < 10 THEN << Digit[cell.value + 1] >>
             ELSE TwoDigits(cell.value)
      [] cell.kind = "NaN" -> << "n", "a", "n" >>
      [] cell.kind = "NaT" -> << "N", "a", "T" >>

\* lines 16-20: re.match anchors the pattern at the start of str(s) only,
\* and the time of day is an optional group
is_timestamp(cell) ==
    LET s == StrOf(cell)
    IN  /\ Len(s) >= 10
        /\ \A i \in {1, 2, 3, 4, 6, 7, 9, 10} : s[i] \in Range(Digit)
        /\ s[5] = "-"
        /\ s[8] = "-"

\* all(df[column].dropna().apply(is_timestamp))
AllTimestamps(table, c) ==
    \A k \in 1..Len(table) :
        ~IsMissing(table[k][c]) => is_timestamp(table[k][c])

\* pd.to_datetime that turns a Timestamp it is given into NaT
ToDatetimeTextOnly(cell) ==
    CASE cell.kind = "str" -> Timestamp(Parse(cell.text))
      [] cell.kind = "Timestamp" -> NaTCell
      [] IsMissing(cell) -> NaTCell

\* pd.to_datetime on one value
to_datetime(cell) ==
    CASE cell.kind = "str" -> Timestamp(Parse(cell.text))
      [] cell.kind = "Timestamp" -> cell
      [] IsMissing(cell) -> NaTCell

\* df[column] = pd.to_datetime(df[column])
ConvertColumn(table, c) ==
    [k \in 1..Len(table) |-> [table[k] EXCEPT ![c] = to_datetime(@)]]

\* lines 41-47 converting whatever convert_datetimes says
ConvertWithoutFlag(table, column, flag) ==
    IF AllTimestamps(table, column)
    THEN ConvertColumn(table, column) ELSE table

\* lines 41-47: one listed column; the else branch only logs
CheckOrConvertColumn(table, column, flag) ==
    IF AllTimestamps(table, column)
    THEN IF flag THEN ConvertColumn(table, column) ELSE table
    ELSE table

\* lines 40-47: the loop over the columns listed with one table
RECURSIVE CheckOrConvertColumns(_, _, _)
CheckOrConvertColumns(table, cols, flag) ==
    IF cols = << >> THEN table
    ELSE CheckOrConvertColumns(
             CheckOrConvertColumn(table, Head(cols), flag), Tail(cols), flag)

\* check_or_convert_timestamp_columns that treats endtime as listed
\* whenever starttime is
CheckConvertsEndtimeToo(mapper, flag) ==
    [i \in 1..Len(mapper) |->
        CheckOrConvertColumns(
            mapper[i][1],
            IF mapper[i][2] = << "starttime" >>
            THEN << "starttime", "endtime" >> ELSE mapper[i][2],
            flag)]

\* lines 33-47: the caller's tables after the call, one per pair of mapper
check_or_convert_timestamp_columns(mapper, flag) ==
    [i \in 1..Len(mapper) |->
        CheckOrConvertColumns(mapper[i][1], mapper[i][2], flag)]

\* df.columns of the tables drawn
ColumnNames == << "subject_id", "starttime", "endtime" >>

\* lines 23-30: the table after the call
convert_timestamp_columns(table) ==
    CheckOrConvertColumns(table, ColumnNames, TRUE)

MaxRows == 2

MaxCalls == 2

\* a start time as text (well-formed or day-first), as Timestamp, or missing
StartCells ==
    {Text(Format(0)),
     Text(<< "1", "3", ".", "1", "0", ".", "2", "0", "2", "3" >>),
     NaNCell, Timestamp(0), NaTCell}

EndCells ==
    {Text(Format(SecondsPerHour)),
     Text(<< "1", "3", ".", "1", "0", ".", "2", "0", "2", "3" >>),
     NaNCell, Timestamp(SecondsPerHour), NaTCell}

\* a column holds text and NaN, or Timestamps and NaT
OneDtype(table, c) ==
    \/ \A k \in 1..Len(table) : table[k][c].kind \in {"str", "NaN"}
    \/ \A k \in 1..Len(table) : table[k][c].kind \in {"Timestamp", "NaT"}

Frames ==
    {t \in TablesOf([subject_id : {Integer(1)}, starttime : StartCells,
                     endtime : EndCells], MaxRows) :
        OneDtype(t, "starttime") /\ OneDtype(t, "endtime")}

ColumnLists ==
    {<< >>, << "starttime" >>, << "endtime" >>,
     << "starttime", "endtime" >>, << "subject_id", "endtime" >>}

InitConvert ==
    /\ df \in Frames
    /\ columns \in ColumnLists
    /\ convert_datetimes = FALSE
    /\ inputs_before = << >>
    /\ InitScanIdle
    /\ InitOverlapIdle
    /\ InitTablesIdle

\* lines 33-47, called with the one pair (df, columns)
CallCheckOrConvertTimestampColumns(flag) ==
    /\ Len(inputs_before) < MaxCalls
    /\ call' = "check_or_convert_timestamp_columns"
    /\ convert_datetimes' = flag
    /\ inputs_before' = Append(inputs_before, df)
    /\ df' = check_or_convert_timestamp_columns(
                 << << df, columns >> >>, flag)[1]
    /\ UNCHANGED << columns, event, intervention, continuous_intervention,
                    window, check_for_duplicates, result, raised >>
    /\ UNCHANGED scanVars
    /\ UNCHANGED overlapVars

\* lines 23-30
CallConvertTimestampColumns ==
    /\ Len(inputs_before) < MaxCalls
    /\ call' = "convert_timestamp_columns"
    /\ inputs_before' = Append(inputs_before, df)
    /\ df' = convert_timestamp_columns(df)
    /\ UNCHANGED << columns, convert_datetimes, event, intervention,
                    continuous_intervention, window, check_for_duplicates,
                    result, raised >>
    /\ UNCHANGED scanVars
    /\ UNCHANGED overlapVars

NextConvert ==
    \/ \E flag \in BOOLEAN : CallCheckOrConvertTimestampColumns(flag)
    \/ CallConvertTimestampColumns

SpecConvert == InitConvert /\ [][NextConvert]_vars

-----------------------------------------------------------------------------
(* The analysis operations called on tables as they are loaded, with the
   convert_datetimes argument.  The caller's tables are event and
   continuous_intervention; the point-in-time operations are called with
   intervention_time_indicator = "starttime". *)

MaxRaw == 2

\* time values as well-formed text, as day-first text, or as Timestamp
RawCells(t) ==
    {Text(Format(t)),
     Text(<< "1", "3", ".", "1", "0", ".", "2", "0", "2", "3" >>),
     Timestamp(t)}

RawEventRows == [subject_id : Subjects, event_time : RawCells(0)]

RawInterventionRows ==
    [subject_id : Subjects, starttime : RawCells(SecondsPerHour \div 2),
     endtime : RawCells(SecondsPerHour), amount : Amounts]

RawEvents ==
    {t \in TablesOf(RawEventRows, MaxRaw) \ {<< >>} :
        OneDtype(t, "event_time")}

RawInterventions ==
    {t \in TablesOf(RawInterventionRows, MaxRaw) :
        OneDtype(t, "starttime") /\ OneDtype(t, "endtime")}

PointOperations ==
    {"intervention_after_event", "count_events_during_observation",
     "count_events_per_day_during_observation"}

\* the time-indicator columns an operation lists with the intervention table
ListedWith(f) ==
    IF f \in PointOperations THEN << "starttime" >>
    ELSE << "starttime", "endtime" >>

\* a table whose time columns are datetime columns, in seconds
Seconds(cell) == IF cell.kind = "Timestamp" THEN cell.value ELSE NaT

AsEvent(table) ==
    [k \in 1..Len(table) |->
        [subject_id |-> table[k].subject_id,
         event_time |-> Seconds(table[k].event_time)]]

AsPoint(table) ==
    [k \in 1..Len(table) |->
        [subject_id |-> table[k].subject_id,
         charttime |-> Seconds(table[k].starttime)]]

AsInterval(table) ==
    [k \in 1..Len(table) |->
        [subject_id |-> table[k].subject_id,
         starttime |-> Seconds(table[k].starttime),
         endtime |-> Seconds(table[k].endtime),
         amount |-> table[k].amount]]

\* column c is a datetime column
IsDatetime(table, c) ==
    \A k \in 1..Len(table) : table[k][c].kind \in {"Timestamp", "NaT"}

\* the exception of pandas arithmetic or comparison between text and
\* Timedelta or Timestamp values; its class depends on the pandas version
TextArithmeticErrors == {"TypeError", "ValueError"}

\* how the body of operation f ends when a listed time column still holds
\* text: the exceptions it can end with, "none" when it returns
TextOutcomes(f, ev, interv) ==
    LET joined == MergeInner(ev, interv) # << >>
    IN  CASE f \in {"intervention_after_event",
                    "continous_intervention_after_event"} ->
                 IF joined THEN TextArithmeticErrors ELSE {"none"}
          [] f = "count_events_during_observation" ->
                 IF joined THEN TextArithmeticErrors ELSE {"ValueError"}
          [] f = "count_events_per_day_during_observation" ->
                 IF joined THEN TextArithmeticErrors
                 ELSE IF IsDatetime(interv, "starttime") THEN {"none"}
                      ELSE {"AttributeError"}
          [] f = "dosage_during_event" ->
                 IF /\ IsDatetime(interv, "starttime")
                    /\ IsDatetime(interv, "endtime")
                 THEN TextArithmeticErrors
                 ELSE IF joined THEN TextArithmeticErrors
                      ELSE {"AttributeError"}

\* what operation f returns on tables whose listed time columns are
\* datetime columns
Computed(f, ev, interv, hours, dedup) ==
    CASE f = "intervention_after_event" ->
             intervention_after_event(AsEvent(ev), AsPoint(interv), hours)
      [] f = "continous_intervention_after_event" ->
             continous_intervention_after_event(
                 AsEvent(ev), AsInterval(interv), hours)
      [] f = "dosage_during_event" ->
             dosage_during_event(
                 AsEvent(ev), AsInterval(interv), hours, dedup)
      [] f = "count_events_during_observation" ->
             count_events_during_observation(
                 AsEvent(ev), AsPoint(interv), hours)
      [] f = "count_events_per_day_during_observation" ->
             count_events_per_day_during_observation(
                 AsEvent(ev), AsPoint(interv), hours)

InitRaw ==
    /\ event \in RawEvents
    /\ continuous_intervention \in RawInterventions
    /\ intervention = << >>
    /\ window \in TableWindows
    /\ check_for_duplicates = TRUE
    /\ call = "none"
    /\ result = << >>
    /\ raised = "none"
    /\ df = << >>
    /\ columns = << >>
    /\ convert_datetimes = FALSE
    /\ inputs_before = << >>
    /\ InitScanIdle
    /\ InitOverlapIdle

\* operation f called with convert_datetimes = flag: the timestamp check,
\* which converts the caller's tables in place, and then the body
Analyse(f, flag) ==
    /\ call = "none"
    /\ call' = f
    /\ convert_datetimes' = flag
    /\ columns' = ListedWith(f)
    /\ inputs_before' = << event, continuous_intervention >>
    /\ LET checked == check_or_convert_timestamp_columns(
                          << << event, << "event_time" >> >>,
                             << continuous_intervention, ListedWith(f) >> >>,
                          flag)
           ev == checked[1]
           interv == checked[2]
           typed == /\ IsDatetime(ev, "event_time")
                    /\ \A c \in Range(ListedWith(f)) : IsDatetime(interv, c)
       IN  /\ event' = ev
           /\ continuous_intervention' = interv
           /\ IF typed
              THEN IF /\ f = "count_events_during_observation"
                      /\ CountRaises(AsEvent(ev), AsPoint(interv))
                   THEN raised' = "ValueError" /\ result' = result
                   ELSE /\ raised' = "none"
                        /\ result' = Computed(f, ev, interv, window,
                                               check_for_duplicates)
              ELSE /\ raised' \in TextOutcomes(f, ev, interv)
                   /\ result' = result
    /\ UNCHANGED << intervention, window, check_for_duplicates, df >>
    /\ UNCHANGED scanVars
    /\ UNCHANGED overlapVars

\* lines 50-123
RawInterventionAfterEvent(flag) ==
    Analyse("intervention_after_event", flag)

\* lines 126-220
RawContinousInterventionAfterEvent(flag) ==
    Analyse("continous_intervention_after_event", flag)

\* lines 241-356
RawDosageDuringEvent(flag) ==
    Analyse("dosage_during_event", flag)

\* lines 359-445
RawCountEventsDuringObservation(flag) ==
    Analyse("count_events_during_observation", flag)

\* lines 448-531
RawCountEventsPerDayDuringObservation(flag) ==
    Analyse("count_events_per_day_during_observation", flag)

NextRaw ==
    \E flag \in BOOLEAN :
        \/ RawInterventionAfterEvent(flag)
        \/ RawContinousInterventionAfterEvent(flag)
        \/ RawDosageDuringEvent(flag)
        \/ RawCountEventsDuringObservation(flag)
        \/ RawCountEventsPerDayDuringObservation(flag)

SpecRaw == InitRaw /\ [][NextRaw]_vars

-----------------------------------------------------------------------------
(* time_based_violation on records that may lack a key *)

MaxRecords == 3

Keys == {"stay_id_value", "valuenum", "charttime"}

\* records at the threshold, at the start and the end of a delta period,
\* complete or without one of the three keys
KeyedRows ==
    UNION {[ks -> Int] \cap
           {[k \in ks |-> CASE k = "stay_id_value" -> s
                            [] k = "valuenum" -> v
                            [] k = "charttime" -> c] :
               s \in Samples, v \in Thresholds,
               c \in {0, Timedelta(MaxDelta)}} :
           ks \in {Keys} \cup {Keys \ {k} : k \in Keys}}

\* lines 566-622 for a record row and a previous record t that may lack
\* keys: a subscript with an absent key raises KeyError inside the try
\* block, and the except clause (lines 618-622) answers it with tmp = row
KeyedStep(thr, delta, mode, t, ids, row) ==
    IF \/ "stay_id_value" \notin DOMAIN row
       \/ t = << >>
       \/ "stay_id_value" \notin DOMAIN t[1]
    THEN ScanState(<<row>>, ids, "keyerror")
    ELSE IF row.stay_id_value # t[1].stay_id_value
         THEN ScanState(<<row>>, ids, "newsample")
    ELSE IF \/ "valuenum" \notin DOMAIN row
            \/ "valuenum" \notin DOMAIN t[1]
            \/ "charttime" \notin DOMAIN row
            \/ "charttime" \notin DOMAIN t[1]
         THEN ScanState(<<row>>, ids, "keyerror")
    ELSE ScanStep(thr, delta, mode, t, ids, row)

\* complete neighbours are sorted by (sample id, time) ascending
KeyedSortedAfter(stream, row) ==
    IF stream = << >> THEN TRUE
    ELSE IF DOMAIN stream[Len(stream)] # Keys \/ DOMAIN row # Keys THEN TRUE
    ELSE SortedAfter(stream, row)

InitKeys ==
    /\ value_dict = << >>
    /\ threshold \in Thresholds
    /\ delta_value \in 1..MaxDelta
    /\ violation \in Modes
    /\ tmp = << >>
    /\ violation_ids = << >>
    /\ tmp_at = 0
    /\ emissions = << >>
    /\ InitWindowIdle
    /\ InitOverlapIdle
    /\ InitTablesIdle
    /\ InitConvertIdle

\* lines 566-622: the loop takes the next record
IterateRecord(row) ==
    /\ call = "none"
    /\ Len(value_dict) < MaxRecords
    /\ KeyedSortedAfter(value_dict, row)
    /\ LET st == KeyedStep(threshold, delta_value, violation, tmp,
                           violation_ids, row)
           at == Len(value_dict) + 1
       IN  /\ value_dict' = Append(value_dict, row)
           /\ tmp' = st.tmp
           /\ violation_ids' = st.violation_ids
           /\ tmp_at' = IF Rebinds(st) THEN at ELSE tmp_at
           /\ emissions' = IF st.branch = "emit"
                           THEN Append(emissions, <<tmp_at, at>>)
                           ELSE emissions
    /\ UNCHANGED << threshold, delta_value, violation >>
    /\ UNCHANGED windowVars
    /\ UNCHANGED overlapVars
    /\ UNCHANGED tableVars
    /\ UNCHANGED convertVars

\* line 624: the loop is over, the list is returned
ReturnViolationIds ==
    /\ call = "none"
    /\ call' = "time_based_violation"
    /\ result' = violation_ids
    /\ raised' = "none"
    /\ UNCHANGED << event, intervention, continuous_intervention, window,
                    check_for_duplicates >>
    /\ UNCHANGED scanVars
    /\ UNCHANGED overlapVars
    /\ UNCHANGED convertVars

NextKeys ==
    \/ \E row \in KeyedRows : IterateRecord(row)
    \/ ReturnViolationIds

SpecKeys == InitKeys /\ [][NextKeys]_vars

-----------------------------------------------------------------------------
(* get_time_based_violation_dict, called with sample_indicator             *)
(* "stay_id_value" and time_indicator "charttime", and the scan of the     *)
(* list it returns.  The observation starts at 01:00; measurements are     *)
(* charted every half hour from 00:30 to 02:00 or carry no time.  The      *)
(* charttime column holds datetimes: line 675 compares it with the         *)
(* converted observation_time column before line 689 converts it.          *)

\* rows of target_df
MaxTargets == 3

ObservationStart == SecondsPerHour

WindowTimes == {k * (SecondsPerHour \div 2) : k \in 1..4}

TargetRows ==
    [stay_id_value : Samples, valuenum : {1}, charttime : WindowTimes \cup {NaT}]

\* the observation_time column as loaded: text, a Timestamp, or missing
ObservationCells ==
    {Text(Format(ObservationStart)), Timestamp(ObservationStart), NaTCell}

SampleRows ==
    [stay_id_value : Samples, observation_time : ObservationCells]

\* lines 664-666: pd.merge(target_df, sample_df, on=sample_indicator,
\* how="left"); a target row without a sample row gets a missing
\* observation_time
MergeOnSample(left, right) ==
    Flatten([i \in 1..Len(left) |->
        LET hit == SelectSeq(right, LAMBDA v :
                       v.stay_id_value = left[i].stay_id_value)
        IN  IF hit = << >>
            THEN << left[i] @@ [observation_time |-> NaNCell] >>
            ELSE [k \in 1..Len(hit) |-> left[i] @@ hit[k]]])

\* the order of sort_values(by=[sample_indicator, time_indicator]):
\* ascending, rows without a time last within their sample
SortsBefore(a, b) ==
    \/ a.stay_id_value < b.stay_id_value
    \/ /\ a.stay_id_value = b.stay_id_value
       /\ a.charttime # NaT
       /\ b.charttime = NaT \/ a.charttime < b.charttime

\* lines 667 and 685-687: sort_values, rows with equal keys keeping their
\* order
RECURSIVE SortValues(_)
SortValues(rows) ==
    IF rows = << >> THEN << >>
    ELSE LET sorted == SortValues(SubSeq(rows, 1, Len(rows) - 1))
             last == rows[Len(rows)]
             ahead == SelectSeq(sorted, LAMBDA r : ~SortsBefore(last, r))
             behind == SelectSeq(sorted, LAMBDA r : SortsBefore(last, r))
         IN  ahead \o << last >> \o behind

\* lines 668-673: the observation_time column converted, rows without an
\* observation time dropped
WithObservationTime(rows) ==
    LET converted == [k \in 1..Len(rows) |->
                        [rows[k] EXCEPT !.observation_time =
                            to_datetime(rows[k].observation_time)]]
        kept == SelectSeq(converted,
                          LAMBDA r : ~IsMissing(r.observation_time))
    IN  [k \in 1..Len(kept) |->
            [kept[k] EXCEPT !.observation_time =
                kept[k].observation_time.value]]

\* lines 675-683: the rows charted inside the window
InsideObservation(rows, hours) ==
    SelectSeq(rows, LAMBDA r :
        /\ Lt(r.observation_time, r.charttime)
        /\ Lt(r.charttime, Plus(r.observation_time, Timedelta(hours))))

\* get_time_based_violation_dict with the window closed at both ends
WindowClosed(target, sample, hours) ==
    LET merged == SortValues(MergeOnSample(target, sample))
        timed == WithObservationTime(merged)
        inside == SelectSeq(timed, LAMBDA r :
                      /\ Le(r.observation_time, r.charttime)
                      /\ Le(r.charttime,
                            Plus(r.observation_time, Timedelta(hours))))
    IN  SortValues(inside)

\* get_time_based_violation_dict without the two sort_values
WindowUnsorted(target, sample, hours) ==
    InsideObservation(WithObservationTime(MergeOnSample(target, sample)),
                      hours)

\* lines 664-695; the records of to_dict("records") are the rows
get_time_based_violation_dict(target, sample, hours) ==
    LET merged == SortValues(MergeOnSample(target, sample))
        timed == WithObservationTime(merged)
        inside == InsideObservation(timed, hours)
    IN  SortValues(inside)

InitWindow ==
    /\ target_df \in TablesOf(TargetRows, MaxTargets)
    /\ sample_df \in TablesOf(SampleRows, Cardinality(Samples))
    /\ delta_window \in 1..MaxDelta
    /\ value_dict = << >>
    /\ threshold \in Thresholds
    /\ delta_value = 1
    /\ violation = "high"
    /\ tmp = << >>
    /\ violation_ids = << >>
    /\ tmp_at = 0
    /\ emissions = << >>
    /\ InitOverlapIdle
    /\ InitTablesIdle
    /\ InitConvertIdle

\* lines 664-695
CallGetTimeBasedViolationDict ==
    /\ call = "none"
    /\ call' = "get_time_based_violation_dict"
    /\ result' = get_time_based_violation_dict(target_df, sample_df,
                                               delta_window)
    /\ UNCHANGED << event, intervention, continuous_intervention, window,
                    check_for_duplicates, raised >>
    /\ UNCHANGED scanVars
    /\ UNCHANGED overlapVars
    /\ UNCHANGED convertVars

\* lines 566-622: time_based_violation takes the next record of the
\* returned list
ScanReturned ==
    /\ call = "get_time_based_violation_dict"
    /\ Len(value_dict) < Len(result)
    /\ LET row == result[Len(value_dict) + 1]
           st == ScanStep(threshold, delta_value, violation, tmp,
                          violation_ids, row)
           at == Len(value_dict) + 1
       IN  /\ value_dict' = Append(value_dict, row)
           /\ tmp' = st.tmp
           /\ violation_ids' = st.violation_ids
           /\ tmp_at' = IF Rebinds(st) THEN at ELSE tmp_at
           /\ emissions' = IF st.branch = "emit"
                           THEN Append(emissions, <<tmp_at, at>>)
                           ELSE emissions
    /\ UNCHANGED << threshold, delta_value, violation >>
    /\ UNCHANGED windowVars
    /\ UNCHANGED overlapVars
    /\ UNCHANGED tableVars
    /\ UNCHANGED convertVars

NextWindow ==
    \/ CallGetTimeBasedViolationDict
    \/ ScanReturned

SpecWindow == InitWindow /\ [][NextWindow]_vars

-----------------------------------------------------------------------------
(* Properties of time_based_violation, checked under SpecScan *)

Breach(row) == row.valuenum >= threshold

SubThreshold(row) == row.valuenum < threshold

SameSample(i, j) == value_dict[i].stay_id_value = value_dict[j].stay_id_value

HoursApart(i, j) ==
    value_dict[j].charttime - value_dict[i].charttime >= Timedelta(delta_value)

\* C1: in mode "high", whenever two records that are consecutive in the
\* stream belong to one sample, both have value >= threshold and lie at
\* least delta_value hours apart, that sample's id is in the returned list.
C1_ConsecutiveBreachesFlagged ==
    violation = "high" =>
        \A i \in 1..(Len(value_dict) - 1) :
            (/\ SameSample(i, i + 1)
             /\ Breach(value_dict[i])
             /\ Breach(value_dict[i + 1])
             /\ HoursApart(i, i + 1))
            => value_dict[i + 1].stay_id_value \in Range(violation_ids)

\* C2: in mode "high" a record below the threshold becomes the stored
\* previous record and appends nothing; no append pairs two records that have
\* a sub-threshold record of their sample between them; and a stream in which
\* no sample has two records >= threshold returns the empty list.
C2_ResetLaw ==
    violation = "high" =>
        /\ (Len(value_dict) > 0 /\ SubThreshold(value_dict[Len(value_dict)]))
           => /\ tmp = << value_dict[Len(value_dict)] >>
              /\ tmp_at = Len(value_dict)
              /\ \A k \in 1..Len(emissions) : emissions[k][2] # Len(value_dict)
        /\ \A k \in 1..Len(emissions) :
               \A j \in (emissions[k][1] + 1)..(emissions[k][2] - 1) :
                   ~(SameSample(j, emissions[k][2]) /\ SubThreshold(value_dict[j]))
        /\ (\A s \in Samples :
               Cardinality({i \in 1..Len(value_dict) :
                               value_dict[i].stay_id_value = s
                               /\ Breach(value_dict[i])}) < 2)
           => violation_ids = << >>

\* a sub-threshold record between two breaching records of one sample that
\* lie delta_value apart has been stored, and nothing was appended
C2_Witness ==
    /\ violation = "high"
    /\ Len(value_dict) = 3
    /\ SameSample(1, 2) /\ SameSample(2, 3)
    /\ Breach(value_dict[1])
    /\ SubThreshold(value_dict[2])
    /\ Breach(value_dict[3])
    /\ HoursApart(1, 3)
    /\ tmp = << value_dict[2] >>
    /\ violation_ids = << >>

\* C3: the returned list holds each sample id at most once.
C3_IdsDistinct ==
    \A i, j \in 1..Len(violation_ids) :
        i # j => violation_ids[i] # violation_ids[j]

Negated(row) == [row EXCEPT !.valuenum = -row.valuenum]

NegatedAll(rows) == [i \in 1..Len(rows) |-> Negated(rows[i])]

\* C4: mode "low" on a stream gives, after every record, the list and the
\* stored previous record that mode "high" gives on the stream with every
\* value and the threshold negated.
C4_LowMirrorsHigh ==
    violation = "low" =>
        LET mirror == time_based_violation(-threshold, delta_value,
                                           NegatedAll(value_dict), "high")
        IN  /\ violation_ids = mirror.violation_ids
            /\ NegatedAll(tmp) = mirror.tmp

\* mode "low" appended for a pair in which a value equals the threshold,
\* after a record above the threshold was stored
C4_Witness ==
    /\ violation = "low"
    /\ violation_ids # << >>
    /\ \E k \in 1..Len(emissions) :
           value_dict[emissions[k][2]].valuenum = threshold
    /\ \E i \in 2..Len(value_dict) :
           SameSample(i - 1, i) /\ value_dict[i].valuenum > threshold

\* the record processed last
Last == value_dict[Len(value_dict)]

\* the last record opens a run: it is the first of the stream, or the
\* record before it belongs to another sample
OpensRun == Len(value_dict) = 1 \/ ~SameSample(Len(value_dict) - 1,
                                                Len(value_dict))

\* C21: the first record of the stream, and every record whose sample id
\* differs from that of the stored previous record, becomes the stored
\* previous record and appends nothing; no append pairs records of two
\* samples; a sample with a single record is never in the returned list.
C21_SegmentBoundary ==
    /\ Len(value_dict) > 0 =>
           /\ tmp # << >>
           /\ tmp[1].stay_id_value = Last.stay_id_value
           /\ OpensRun =>
                  /\ tmp = << Last >>
                  /\ tmp_at = Len(value_dict)
                  /\ \A k \in 1..Len(emissions) :
                         emissions[k][2] # Len(value_dict)
    /\ \A k \in 1..Len(emissions) :
           SameSample(emissions[k][1], emissions[k][2])
    /\ \A s \in Samples :
           Cardinality({i \in 1..Len(value_dict) :
                           value_dict[i].stay_id_value = s}) = 1
               => s \notin Range(violation_ids)

\* a record of another sample followed a breaching record delta_value
\* earlier, both at or beyond the threshold: it was stored, nothing appended
C21_Witness ==
    /\ Len(value_dict) = 2
    /\ ~SameSample(1, 2)
    /\ value_dict[1].valuenum = threshold
    /\ value_dict[2].valuenum = threshold
    /\ HoursApart(1, 2)
    /\ tmp = << value_dict[2] >>
    /\ violation_ids = << >>

\* the step processes one more record
Processes == Len(value_dict') = Len(value_dict) + 1

\* the record the step processes
Current == value_dict'[Len(value_dict')]

\* the step finds a stored record of the sample of the record it processes
MeetsStored ==
    /\ Processes
    /\ tmp # << >>
    /\ tmp[1].stay_id_value = Current.stay_id_value

\* the emit transition of mode "high", as a step
EmitStepHigh ==
    ( /\ violation = "high"
      /\ MeetsStored
      /\ Current.valuenum >= threshold
      /\ tmp[1].valuenum >= threshold
      /\ Current.charttime - tmp[1].charttime >= Timedelta(delta_value) )
    => /\ violation_ids' = Append(violation_ids, Current.stay_id_value)
       /\ tmp' = << Current >>

\* in mode "high" two appends for one sample are for records at least
\* delta_value hours apart
EmissionsSpaced ==
    violation = "high" =>
        \A k \in 1..Len(emissions) : \A l \in 1..Len(emissions) :
            (k < l /\ SameSample(emissions[k][2], emissions[l][2]))
                => /\ emissions[l][1] >= emissions[k][2]
                   /\ HoursApart(emissions[k][2], emissions[l][2])

\* C22: in mode "high", a record of the sample of the stored record, both
\* values at or beyond the threshold and the times at least delta_value
\* hours apart (equality included), appends its sample id and becomes the
\* stored record, so a further append for the sample needs a record at
\* least delta_value hours after it.
C22_EmitTransition == [][EmitStepHigh]_vars /\ []EmissionsSpaced

\* two appends for one sample, each exactly delta_value hours after the
\* record it was measured against
C22_Witness ==
    /\ violation = "high"
    /\ Len(emissions) = 2
    /\ SameSample(emissions[1][2], emissions[2][2])
    /\ emissions[2][1] = emissions[1][2]
    /\ \A k \in 1..2 :
           value_dict[emissions[k][2]].charttime
             - value_dict[emissions[k][1]].charttime = Timedelta(delta_value)
    /\ tmp = << Last >>

\* the hold transition of mode "high", as a step
HoldStepHigh ==
    ( /\ violation = "high"
      /\ MeetsStored
      /\ Current.valuenum >= threshold
      /\ tmp[1].valuenum >= threshold
      /\ Current.charttime - tmp[1].charttime < Timedelta(delta_value) )
    => /\ violation_ids' = violation_ids
       /\ tmp' = tmp
       /\ tmp_at' = tmp_at

\* in mode "high" every append is measured against the anchor: the records
\* between the anchor and the appended record breach the threshold less
\* than delta_value hours after the anchor, the appended one at least
\* delta_value hours after it
MeasuredAgainstAnchor ==
    violation = "high" =>
        \A k \in 1..Len(emissions) :
            LET i == emissions[k][1]
                j == emissions[k][2]
            IN  /\ i < j
                /\ HoursApart(i, j)
                /\ \A m \in (i + 1)..(j - 1) :
                       /\ SameSample(i, m)
                       /\ Breach(value_dict[m])
                       /\ ~HoursApart(i, m)

\* C23: in mode "high", a record of the sample of the stored record, both
\* values at or beyond the threshold but less than delta_value hours
\* apart, appends nothing and leaves the stored record as it is, so a
\* later breaching record is measured against the original anchor.
C23_HoldTransition == [][HoldStepHigh]_vars /\ []MeasuredAgainstAnchor

\* an append measured against an anchor two records back, the record in
\* between being less than delta_value hours before the appended one
C23_Witness ==
    /\ violation = "high"
    /\ Len(value_dict) = 3
    /\ emissions = << <<1, 3>> >>
    /\ value_dict[2].charttime > value_dict[1].charttime
    /\ ~HoursApart(2, 3)
    /\ tmp_at = 3

\* the step of mode "high" that meets a stored record below the threshold
\* with a record of its sample at or beyond the threshold
BreachMeetsSubThreshold ==
    /\ violation = "high"
    /\ MeetsStored
    /\ Current.valuenum >= threshold
    /\ tmp[1].valuenum < threshold

\* C24: in mode "high" no step processes a record with value >= threshold
\* of the sample of the stored record while the stored record has a
\* value < threshold.
C24_SubThresholdPreviousUnreachable ==
    [][~BreachMeetsSubThreshold]_vars

\* the records of the current run: those of the sample of the last record
CurrentRun ==
    {i \in 1..Len(value_dict) :
        value_dict[i].stay_id_value = Last.stay_id_value}

-----------------------------------------------------------------------------
(* Properties of calculate_time_overlap, checked under SpecOverlap *)

Returned == overlap # << >>

WindowEnd == event_time + observation_time * SecondsPerHour

\* seconds shared by the interval and the window according to the formula
FormulaSeconds ==
    (IF intervention_time_end <= WindowEnd
        THEN intervention_time_end ELSE WindowEnd)
    - (IF intervention_time_start >= event_time
          THEN intervention_time_start ELSE event_time)

\* C5: the returned value is min(end, event_time + window) - max(start,
\* event_time) in hours when start <= event_time + window and end >=
\* event_time, and 0 otherwise.
C5_OverlapFormula ==
    Returned =>
        IF intervention_time_start <= WindowEnd
           /\ intervention_time_end >= event_time
        THEN /\ overlap[1][2] > 0
             /\ overlap[1][1] * SecondsPerHour = FormulaSeconds * overlap[1][2]
        ELSE overlap[1] = Zero

\* an interval that only touches the end of the window yields 0 by formula
C5_Witness ==
    /\ Returned
    /\ observation_time > 0
    /\ intervention_time_start = WindowEnd
    /\ intervention_time_end > intervention_time_start
    /\ overlap[1] = Zero

\* C6: for window >= 0 and end >= start the returned value lies in
\* [0, min(window, end - start)] hours.
C6_OverlapBound ==
    (/\ Returned
     /\ observation_time >= 0
     /\ intervention_time_end >= intervention_time_start)
    => /\ overlap[1][2] > 0
       /\ overlap[1][1] >= 0
       /\ overlap[1][1] <= observation_time * overlap[1][2]
       /\ overlap[1][1] * SecondsPerHour
             <= (intervention_time_end - intervention_time_start) * overlap[1][2]

\* an interval that covers the whole window returns exactly the window
C6_Witness ==
    /\ Returned
    /\ observation_time > 0
    /\ intervention_time_start < event_time
    /\ intervention_time_end > WindowEnd
    /\ overlap[1] = << observation_time, 1 >>

\* C7: for window >= 0 and end < start the returned value is exactly 0.
C7_DegenerateIsZero ==
    (/\ Returned
     /\ observation_time >= 0
     /\ intervention_time_end < intervention_time_start)
    => overlap[1] = Zero

-----------------------------------------------------------------------------
(* Properties of the table operations, checked under SpecTables *)

EventSubjects == {event[i].subject_id : i \in 1..Len(event)}

WindowSeconds == window * SecondsPerHour

NoRepeats(list) ==
    \A i, j \in 1..Len(list) : i # j => list[i] # list[j]

\* the (event row, intervention row) index pairs of one sample
PointPairs(s) ==
    {p \in (1..Len(event)) \X (1..Len(intervention)) :
        event[p[1]].subject_id = s /\ intervention[p[2]].subject_id = s}

IntervalPairs(s) ==
    {p \in (1..Len(event)) \X (1..Len(continuous_intervention)) :
        /\ event[p[1]].subject_id = s
        /\ continuous_intervention[p[2]].subject_id = s}

InWindow(p) ==
    /\ intervention[p[2]].charttime # NaT
    /\ event[p[1]].event_time <= intervention[p[2]].charttime
    /\ intervention[p[2]].charttime <= event[p[1]].event_time + WindowSeconds

\* C8: intervention_after_event returns each sample id at most once, and a
\* sample id is returned exactly when the two tables hold rows of that
\* sample with event_time <= intervention time <= event_time + window.
C8_PointWindowClosed ==
    call = "intervention_after_event" =>
        /\ NoRepeats(result)
        /\ \A s \in Subjects :
               s \in Range(result) <=> \E p \in PointPairs(s) : InWindow(p)

\* a sample is returned whose only qualifying interventions lie exactly at
\* event_time or exactly at event_time + window, another sample of the event
\* table has no intervention row and is not returned
C8_Witness ==
    /\ call = "intervention_after_event"
    /\ \E s \in Range(result) :
           /\ \E p \in PointPairs(s) :
                  /\ InWindow(p)
                  /\ intervention[p[2]].charttime = event[p[1]].event_time
           /\ \E p \in PointPairs(s) :
                  /\ InWindow(p)
                  /\ intervention[p[2]].charttime
                         = event[p[1]].event_time + WindowSeconds
    /\ \E s \in EventSubjects : PointPairs(s) = {} /\ s \notin Range(result)

StartsInside(p) ==
    /\ continuous_intervention[p[2]].starttime > event[p[1]].event_time
    /\ continuous_intervention[p[2]].starttime
           < event[p[1]].event_time + WindowSeconds

ActiveAtEvent(p) ==
    /\ continuous_intervention[p[2]].starttime <= event[p[1]].event_time
    /\ continuous_intervention[p[2]].endtime > event[p[1]].event_time

\* C9: continous_intervention_after_event reports a sample exactly when one
\* of its joined rows has (start > event_time and start < event_time +
\* window) or (start <= event_time and end > event_time).
C9_IntervalPredicate ==
    call = "continous_intervention_after_event" =>
        \A s \in Subjects :
            s \in Range(result)
                <=> \E p \in IntervalPairs(s) : StartsInside(p) \/ ActiveAtEvent(p)

\* the hours of the interval of a joined pair that the claim's formula counts
Contribution(p) ==
    LET e == event[p[1]]
        v == continuous_intervention[p[2]]
    IN  FMul(FDiv(Frac(v.amount, 1),
                  Frac(v.endtime - v.starttime, SecondsPerHour)),
             calculate_time_overlap(e.event_time, window, v.starttime, v.endtime))

\* a joined row as the values of its columns
Joined(p) ==
    LET e == event[p[1]]
        v == continuous_intervention[p[2]]
    IN  << e.event_time, v.starttime, v.endtime, v.amount >>

\* the joined pairs of a sample that contribute: all of them, or one per
\* distinct joined row when duplicates are dropped
Counted(s) ==
    IF check_for_duplicates
    THEN {p \in IntervalPairs(s) :
             \A q \in IntervalPairs(s) :
                 Joined(q) = Joined(p) => (q[1] > p[1] \/ (q[1] = p[1] /\ q[2] >= p[2]))}
    ELSE IntervalPairs(s)

RECURSIVE SumOver(_)
SumOver(pairs) ==
    IF pairs = {} THEN Zero
    ELSE LET p == CHOOSE q \in pairs : TRUE
         IN  FAdd(Contribution(p), SumOver(pairs \ {p}))

\* the intervals joined to sample s all have start < end
ProperIntervals(s) ==
    \A p \in IntervalPairs(s) :
        continuous_intervention[p[2]].starttime
            < continuous_intervention[p[2]].endtime

\* C10: dosage_during_event returns exactly one row for every sample id of
\* the event table; for intervals with start < end the total is the sum over
\* the sample's joined rows of amount / (end - start in hours) * overlap; a
\* sample without intervention rows has total 0.
C10_DosageTotals ==
    call = "dosage_during_event" =>
        /\ {result[k].subject_id : k \in 1..Len(result)} = EventSubjects
        /\ Len(result) = Cardinality(EventSubjects)
        /\ \A k \in 1..Len(result) :
               LET s == result[k].subject_id
               IN  /\ ProperIntervals(s) =>
                          result[k].total_amount = SumOver(Counted(s))
                   /\ IntervalPairs(s) = {} => result[k].total_amount = Zero

\* one sample's total is the sum of two partial overlaps, another sample of
\* the event table has no intervention row and total 0
C10_Witness ==
    /\ call = "dosage_during_event"
    /\ \E k \in 1..Len(result) :
           /\ Cardinality(Counted(result[k].subject_id)) >= 2
           /\ ProperIntervals(result[k].subject_id)
           /\ \A p \in Counted(result[k].subject_id) :
                  /\ Contribution(p) # Zero
                  /\ Contribution(p)
                       # Frac(continuous_intervention[p[2]].amount, 1)
           /\ result[k].total_amount # Zero
    /\ \E k \in 1..Len(result) :
           /\ IntervalPairs(result[k].subject_id) = {}
           /\ result[k].total_amount = Zero

-----------------------------------------------------------------------------
\* Duplicates and zero-duration intervals in dosage_during_event

\* the table with every row repeated once more
Twice(rows) == rows \o rows

\* C11: whether duplicated joined rows are dropped depends only on
\* check_for_duplicates.  With the flag set, repeating an event row or an
\* intervention row verbatim leaves every total as it was; with the flag
\* clear every joined row contributes, so repeating the whole event table
\* doubles every sample's total.
C11_DuplicatesByFlag ==
    call = "dosage_during_event" =>
        IF check_for_duplicates
        THEN /\ \A i \in 1..Len(event) :
                    dosage_during_event(Append(event, event[i]),
                        continuous_intervention, window, TRUE) = result
             /\ \A j \in 1..Len(continuous_intervention) :
                    dosage_during_event(event,
                        Append(continuous_intervention,
                               continuous_intervention[j]),
                        window, TRUE) = result
        ELSE LET twice == dosage_during_event(Twice(event),
                              continuous_intervention, window, FALSE)
             IN  /\ Len(twice) = Len(result)
                 /\ \A k \in 1..Len(result) :
                        /\ twice[k].subject_id = result[k].subject_id
                        /\ twice[k].total_amount
                             = FMul(Frac(2, 1), result[k].total_amount)

\* the flag is set, the intervention table holds the same administration
\* twice and the sample's total counts it once
C11_Witness ==
    /\ call = "dosage_during_event"
    /\ check_for_duplicates
    /\ \E i, j \in 1..Len(continuous_intervention) :
           /\ i < j
           /\ continuous_intervention[i] = continuous_intervention[j]
    /\ \E k \in 1..Len(result) : result[k].total_amount # Zero
    /\ result # dosage_during_event(event, continuous_intervention,
                                     window, FALSE)

\* C12: an interval with start = end and a non-zero amount makes the
\* sample's total non-finite.
C12_ZeroDurationNonFinite ==
    call = "dosage_during_event" =>
        \A k \in 1..Len(result) :
            (\E p \in IntervalPairs(result[k].subject_id) :
                 LET v == continuous_intervention[p[2]]
                 IN  v.starttime = v.endtime /\ v.amount # 0)
                => ~IsFinite(result[k].total_amount)

-----------------------------------------------------------------------------
(* Properties of the counting operations, checked under SpecCounts *)

\* the joined rows of sample s that lie in the closed observation window
InWindowPairs(s) == {p \in PointPairs(s) : InWindow(p)}

\* the joined rows of sample s with a recorded intervention time
TimedPairs(s) ==
    {p \in PointPairs(s) : intervention[p[2]].charttime # NaT}

Returns(f) == call = f /\ raised = "none"

\* C13: for every sample in the output of count_events_during_observation,
\* total_interventions is the number of the sample's joined rows whose
\* intervention time is recorded and lies in
\* [event_time, event_time + observation_time], both ends included.
C13_CountsClosedWindow ==
    Returns("count_events_during_observation") =>
        \A k \in 1..Len(result) :
            result[k].total_interventions
                = Cardinality(InWindowPairs(result[k].subject_id))

\* a counted intervention lies exactly at the end of the window, and a
\* joined row of the same sample is not counted
C13_Witness ==
    /\ Returns("count_events_during_observation")
    /\ \E k \in 1..Len(result) :
           LET s == result[k].subject_id
           IN  /\ result[k].total_interventions >= 1
               /\ \E p \in InWindowPairs(s) :
                      intervention[p[2]].charttime
                          = event[p[1]].event_time + WindowSeconds
               /\ PointPairs(s) # InWindowPairs(s)

\* C14 as stated: the flat output has exactly one row for every sample of
\* the event table, with total 0 for a sample without interventions.
C14_RowForEverySample ==
    Returns("count_events_during_observation") =>
        /\ {result[k].subject_id : k \in 1..Len(result)} = EventSubjects
        /\ Len(result) = Cardinality(EventSubjects)
        /\ \A k \in 1..Len(result) :
               InWindowPairs(result[k].subject_id) = {}
                   => result[k].total_interventions = 0

\* C14 amended: the flat output has exactly one row for every sample of the
\* event table that has an intervention row with a recorded time, with
\* total 0 when none of them lies inside the window; a sample of the event
\* table without such an intervention row has no row.
C14_RowForEveryTimedSample ==
    Returns("count_events_during_observation") =>
        /\ {result[k].subject_id : k \in 1..Len(result)}
               = {s \in EventSubjects : TimedPairs(s) # {}}
        /\ NoRepeats(Column(result, "subject_id"))
        /\ \A k \in 1..Len(result) :
               InWindowPairs(result[k].subject_id) = {}
                   => result[k].total_interventions = 0

\* one sample has a row with total 0, another sample of the event table has
\* only intervention rows without a time and no row
C14_Witness ==
    /\ Returns("count_events_during_observation")
    /\ \E k \in 1..Len(result) : result[k].total_interventions = 0
    /\ \E s \in EventSubjects :
           /\ PointPairs(s) # {}
           /\ \A k \in 1..Len(result) : result[k].subject_id # s

\* the calendar days of the model
Days == {FloorDay(t) : t \in CountTimes}

\* the in-window joined rows of sample s whose time floors to day d
OnDay(s, d) ==
    {p \in InWindowPairs(s) : FloorDay(intervention[p[2]].charttime) = d}

\* C15: count_events_per_day_during_observation has a row (sample, day,
\* count) exactly when count >= 1 is the number of the sample's in-window
\* joined rows whose time floors to that calendar day; there is one row per
\* (sample, day), and none for a sample without in-window intervention.
C15_PerDayRows ==
    call = "count_events_per_day_during_observation" =>
        /\ \A k \in 1..Len(result) :
               /\ result[k].count_per_day >= 1
               /\ result[k].count_per_day
                    = Cardinality(OnDay(result[k].subject_id,
                                        result[k].charttime_day))
        /\ \A s \in Subjects, d \in Days :
               OnDay(s, d) # {} =>
                   \E k \in 1..Len(result) :
                       /\ result[k].subject_id = s
                       /\ result[k].charttime_day = d
        /\ NoRepeats([k \in 1..Len(result) |->
                         << result[k].subject_id, result[k].charttime_day >>])

\* an event at 23:00 has interventions before and after midnight, which
\* land in two rows; another sample of the event table has no intervention
\* inside the window and no row
C15_Witness ==
    /\ call = "count_events_per_day_during_observation"
    /\ \E i, j \in 1..Len(result) :
           /\ result[i].subject_id = result[j].subject_id
           /\ result[i].charttime_day # result[j].charttime_day
           /\ \E p \in OnDay(result[j].subject_id, result[j].charttime_day) :
                  FloorDay(event[p[1]].event_time) # result[j].charttime_day
    /\ \E s \in EventSubjects :
           /\ InWindowPairs(s) = {}
           /\ \A k \in 1..Len(result) : result[k].subject_id # s

-----------------------------------------------------------------------------
(* Properties of the timestamp normalization, checked under SpecConvert *)

\* the table before the latest call
Before == inputs_before[Len(inputs_before)]

\* the listed columns, as a set
Listed == Range(columns)

\* C18: check_or_convert_timestamp_columns with convert_datetimes false
\* changes no table; with convert_datetimes true exactly the listed columns
\* whose non-missing values all match the timestamp pattern are converted,
\* and every other column keeps its values and value types.
C18_ConvertsListedMatching ==
    call = "check_or_convert_timestamp_columns" =>
        /\ Len(df) = Len(Before)
        /\ ~convert_datetimes => df = Before
        /\ convert_datetimes =>
               \A k \in 1..Len(df), c \in Range(ColumnNames) :
                   IF c \in Listed /\ AllTimestamps(Before, c)
                   THEN /\ df[k][c].kind \in {"Timestamp", "NaT"}
                        /\ df[k][c].kind = "Timestamp"
                               => StrOf(df[k][c]) = StrOf(Before[k][c])
                        /\ df[k][c].kind = "NaT" => IsMissing(Before[k][c])
                   ELSE df[k][c] = Before[k][c]

\* with convert_datetimes true a listed text column was converted, another
\* listed column that fails the pattern kept its text
C18_Witness ==
    /\ call = "check_or_convert_timestamp_columns"
    /\ convert_datetimes
    /\ columns = << "starttime", "endtime" >>
    /\ \E k \in 1..Len(df) :
           /\ Before[k].starttime.kind = "str"
           /\ df[k].starttime.kind = "Timestamp"
    /\ \E k \in 1..Len(df) :
           /\ df[k].endtime.kind = "str"
           /\ ~is_timestamp(df[k].endtime)
    /\ \E k \in 1..Len(df) : is_timestamp(df[k].endtime)

\* column c holds canonical timestamps
Canonical(table, c) ==
    \A k \in 1..Len(table) : table[k][c].kind \in {"Timestamp", "NaT"}

\* C19: normalization is idempotent: normalizing a table whose columns are
\* already canonical timestamps leaves it unchanged, and a table that was
\* just normalized is not changed by normalizing it again.
C19_NormalizationIdempotent ==
    /\ (\A c \in Listed : c # "subject_id" => Canonical(df, c)) =>
           check_or_convert_timestamp_columns(
               << << df, columns >> >>, TRUE)[1] = df
    /\ (Canonical(df, "starttime") /\ Canonical(df, "endtime")) =>
           convert_timestamp_columns(df) = df
    /\ (call = "check_or_convert_timestamp_columns" /\ convert_datetimes) =>
           check_or_convert_timestamp_columns(
               << << df, columns >> >>, TRUE)[1] = df
    /\ call = "convert_timestamp_columns" =>
           convert_timestamp_columns(df) = df

\* a text column was normalized, and normalizing the result again gave the
\* same table
C19_Witness ==
    /\ Len(inputs_before) = 2
    /\ call = "check_or_convert_timestamp_columns"
    /\ convert_datetimes
    /\ inputs_before[1] # inputs_before[2]
    /\ df = inputs_before[2]
    /\ \E k \in 1..Len(df) : \E c \in Listed :
           /\ df[k][c].kind = "Timestamp"
           /\ inputs_before[1][k][c].kind = "str"

-----------------------------------------------------------------------------
(* Properties of the analysis operations on tables as loaded, checked under
   SpecRaw *)

\* column c holds a non-missing value that fails the timestamp pattern
FailsPattern(table, c) ==
    \E k \in 1..Len(table) :
        ~IsMissing(table[k][c]) /\ ~is_timestamp(table[k][c])

\* C16: when a time-indicator column handed to an analysis operation holds
\* a non-missing value that does not match the timestamp pattern and
\* convert_datetimes is false, the call ends in an error and produces no
\* result.
C16_BadTimestampRaises ==
    (/\ call # "none"
     /\ ~convert_datetimes
     /\ \/ FailsPattern(inputs_before[1], "event_time")
        \/ \E c \in Range(columns) : FailsPattern(inputs_before[2], c))
        => raised # "none"

\* C20 as stated: after any call of an analysis operation, with either
\* value of convert_datetimes, the caller's event and intervention tables
\* are what they were before the call.
C20_InputsUntouched ==
    call # "none" =>
        /\ event = inputs_before[1]
        /\ continuous_intervention = inputs_before[2]

\* cell now is the canonical timestamp of the cell was
CanonicalOf(now, was) ==
    /\ now.kind = "Timestamp"
    /\ Format(now.value) = StrOf(was)

\* table now is table was, except that the columns of cols whose values
\* all match the timestamp pattern hold the canonical timestamps
OnlyConverted(now, was, cols, all) ==
    /\ Len(now) = Len(was)
    /\ \A k \in 1..Len(was) :
           /\ DOMAIN now[k] = DOMAIN was[k]
           /\ \A c \in all :
                  IF c \in cols /\ AllTimestamps(was, c)
                  THEN CanonicalOf(now[k][c], was[k][c])
                  ELSE now[k][c] = was[k][c]

\* C20 amended: with convert_datetimes false the caller's tables are
\* unchanged after the call; with convert_datetimes true the listed
\* time-indicator columns whose non-missing values all match the timestamp
\* pattern hold canonical timestamps afterwards, and every other column
\* keeps its values and value types.
C20_OnlyListedTimeColumnsConverted ==
    call # "none" =>
        IF convert_datetimes
        THEN /\ OnlyConverted(event, inputs_before[1], {"event_time"},
                              {"subject_id", "event_time"})
             /\ OnlyConverted(continuous_intervention, inputs_before[2],
                              Range(columns),
                              {"subject_id", "starttime", "endtime",
                               "amount"})
        ELSE /\ event = inputs_before[1]
             /\ continuous_intervention = inputs_before[2]

\* a point-in-time operation called with convert_datetimes true returned;
\* afterwards the caller's event_time and starttime columns hold Timestamps
\* in place of text, and the unlisted endtime column still holds its
\* well-formed text
C20_Witness ==
    /\ call \in PointOperations
    /\ convert_datetimes
    /\ raised = "none"
    /\ \E k \in 1..Len(event) :
           /\ inputs_before[1][k].event_time.kind = "str"
           /\ event[k].event_time.kind = "Timestamp"
    /\ \E k \in 1..Len(continuous_intervention) :
           /\ inputs_before[2][k].starttime.kind = "str"
           /\ continuous_intervention[k].starttime.kind = "Timestamp"
           /\ continuous_intervention[k].endtime.kind = "str"
    /\ AllTimestamps(continuous_intervention, "endtime")

-----------------------------------------------------------------------------
(* Properties of time_based_violation on incomplete records, checked under
   SpecKeys *)

\* C17: a key that is absent from a record handed to time_based_violation
\* is a fatal error: the call does not return a result.
C17_MissingKeyIsFatal ==
    (/\ call = "time_based_violation"
     /\ \E i \in 1..Len(value_dict) : DOMAIN value_dict[i] # Keys)
        => raised # "none"

-----------------------------------------------------------------------------
(* Properties of the aggregating operations, checked under SpecAggregates *)

\* every reordering of the rows of a table
Reorderings(table) ==
    {[i \in 1..Len(table) |-> table[p[i]]] :
        p \in Permutations(1..Len(table))}

\* the result of the operation that was called, on tables ev and interv
\* ("ValueError" when it raises)
Recomputed(ev, points, intervals) ==
    IF call = "dosage_during_event"
    THEN Range(dosage_during_event(ev, intervals, window,
                                   check_for_duplicates))
    ELSE IF call = "count_events_during_observation"
    THEN IF CountRaises(ev, points) THEN "ValueError"
         ELSE Range(count_events_during_observation(ev, points, window))
    ELSE Range(count_events_per_day_during_observation(ev, points, window))

\* what the call produced
Produced == IF raised = "none" THEN Range(result) ELSE raised

\* C25: permuting the rows of the intervention table, or of the event
\* table, changes neither the per-sample totals of dosage_during_event
\* nor the per-sample counts of the two counters (nor whether the flat
\* counter returns).
C25_OrderIndependent ==
    call # "none" =>
        /\ \A ev \in Reorderings(event) :
               Recomputed(ev, intervention, continuous_intervention)
                   = Produced
        /\ \A points \in Reorderings(intervention) :
               Recomputed(event, points, continuous_intervention) = Produced
        /\ \A intervals \in Reorderings(continuous_intervention) :
               Recomputed(event, intervention, intervals) = Produced

\* a dosage total summed over two different intervals of one sample with
\* two events, or a count over two different interventions of one sample
C25_Witness ==
    /\ Len(event) = 2
    /\ event[1] # event[2]
    /\ \/ /\ call = "dosage_during_event"
          /\ Len(continuous_intervention) = 2
          /\ continuous_intervention[1] # continuous_intervention[2]
          /\ continuous_intervention[1].subject_id
                = continuous_intervention[2].subject_id
          /\ \E k \in 1..Len(result) :
                 result[k].subject_id = continuous_intervention[1].subject_id
       \/ /\ call = "count_events_during_observation"
          /\ Len(intervention) = 2
          /\ intervention[1] # intervention[2]
          /\ \E k \in 1..Len(result) : result[k].total_interventions = 2

-----------------------------------------------------------------------------
(* The two counters against each other, checked under SpecCounts *)

\* the sum of count_per_day over the rows of sample s
PerDayTotal(rows, s) ==
    LET mine == SelectSeq(rows, LAMBDA r : r.subject_id = s)
    IN  SumInt(Column(mine, "count_per_day"))

\* total_interventions of sample s, 0 for a sample without a row
FlatTotal(rows, s) ==
    LET mine == SelectSeq(rows, LAMBDA r : r.subject_id = s)
    IN  SumInt(Column(mine, "total_interventions"))

\* C27: for every sample, the sum of count_per_day over the sample's rows
\* in the per-day output equals its total_interventions in the flat
\* output, a sample absent from an output counting as 0 there.
C27_PerDaySumsToTotal ==
    /\ (call = "count_events_during_observation" /\ raised = "none") =>
           \A s \in Subjects :
               FlatTotal(result, s)
                 = PerDayTotal(count_events_per_day_during_observation(
                                   event, intervention, window), s)
    /\ (call = "count_events_per_day_during_observation"
          /\ ~CountRaises(event, intervention)) =>
           \A s \in Subjects :
               PerDayTotal(result, s)
                 = FlatTotal(count_events_during_observation(
                                 event, intervention, window), s)

\* a per-day output with rows on two days for one sample, whose counts
\* add up to 2, the flat output holding a row for that one sample
C27_Witness ==
    /\ call = "count_events_per_day_during_observation"
    /\ \E k \in 1..Len(result) : \E l \in 1..Len(result) :
           /\ result[k].subject_id = result[l].subject_id
           /\ result[k].charttime_day # result[l].charttime_day
           /\ PerDayTotal(result, result[k].subject_id) = 2
    /\ Len(count_events_during_observation(event, intervention, window)) = 1

-----------------------------------------------------------------------------
(* Conservation of the dosage, checked under SpecAggregates *)

\* the dosage_during_overlap value of the joined row of pair p
OverlapDosage(p) ==
    DosageDuringOverlap(JoinRow(event[p[1]], continuous_intervention[p[2]]),
                        window)

\* the amount of the intervention row of pair p
AmountOf(p) == Frac(continuous_intervention[p[2]].amount, 1)

RECURSIVE SumAmounts(_)
SumAmounts(pairs) ==
    IF pairs = {} THEN Zero
    ELSE LET p == CHOOSE q \in pairs : TRUE
         IN  FAdd(AmountOf(p), SumAmounts(pairs \ {p}))

\* the interval of pair p lies inside the window of its event
InsideWindow(p) ==
    /\ event[p[1]].event_time <= continuous_intervention[p[2]].starttime
    /\ continuous_intervention[p[2]].endtime
           <= event[p[1]].event_time + WindowSeconds

\* the interval of pair p ends before the event or starts after the window
MissesWindow(p) ==
    \/ continuous_intervention[p[2]].endtime < event[p[1]].event_time
    \/ continuous_intervention[p[2]].starttime
           > event[p[1]].event_time + WindowSeconds

\* C28: for every joined row with start < end (amount >= 0, window >= 0)
\* the contribution amount / (end - start) * overlap lies in [0, amount],
\* equals the amount when the interval lies inside
\* [event_time, event_time + window], and is 0 when the interval misses
\* the window; so no total exceeds the sum of the amounts of its counted
\* rows.
C28_DosageConserved ==
    call = "dosage_during_event" =>
        /\ \A s \in Subjects : \A p \in IntervalPairs(s) :
               continuous_intervention[p[2]].starttime
                   < continuous_intervention[p[2]].endtime
               => /\ FLe(Zero, OverlapDosage(p))
                  /\ FLe(OverlapDosage(p), AmountOf(p))
                  /\ InsideWindow(p) => OverlapDosage(p) = AmountOf(p)
                  /\ MissesWindow(p) => OverlapDosage(p) = Zero
        /\ \A k \in 1..Len(result) :
               ProperIntervals(result[k].subject_id) =>
                   FLe(result[k].total_amount,
                       SumAmounts(Counted(result[k].subject_id)))

\* one sample's total adds a full amount, a part of an amount and the 0 of
\* an interval that misses the window
C28_Witness ==
    /\ call = "dosage_during_event"
    /\ \E k \in 1..Len(result) :
           LET s == result[k].subject_id
           IN  /\ ProperIntervals(s)
               /\ \E p \in Counted(s) : InsideWindow(p)
               /\ \E p \in Counted(s) : MissesWindow(p)
               /\ \E p \in Counted(s) :
                      /\ OverlapDosage(p) # Zero
                      /\ OverlapDosage(p) # AmountOf(p)
               /\ result[k].total_amount
                      # SumAmounts(Counted(s))

-----------------------------------------------------------------------------
(* Properties of get_time_based_violation_dict, checked under SpecWindow *)

Windowed == call = "get_time_based_violation_dict"

\* C29: the list returned by get_time_based_violation_dict is ordered by
\* (sample id, time) ascending: the records of one sample are contiguous
\* and in non-decreasing time order, so every record that
\* time_based_violation takes from it meets the ordering precondition of
\* the scan.
C29_ReturnedListSorted ==
    Windowed =>
        /\ \A i \in 1..Len(result) : \A j \in 1..Len(result) :
               i < j =>
                   /\ result[i].stay_id_value <= result[j].stay_id_value
                   /\ result[i].stay_id_value = result[j].stay_id_value
                          => result[i].charttime <= result[j].charttime
        /\ \A n \in 1..Len(result) :
               SortedAfter(SubSeq(result, 1, n - 1), result[n])
        /\ value_dict = SubSeq(result, 1, Len(value_dict))

\* the measurement table lists a later sample first and, within a sample,
\* a later measurement first; the scan has taken the whole returned list
C29_Witness ==
    /\ Windowed
    /\ Len(target_df) = 2
    /\ \/ target_df[1].stay_id_value > target_df[2].stay_id_value
       \/ /\ target_df[1].stay_id_value = target_df[2].stay_id_value
          /\ target_df[1].charttime > target_df[2].charttime
    /\ \E i \in 1..Len(result) : \E j \in 1..Len(result) :
           [k \in {"stay_id_value", "charttime"} |-> result[i][k]]
               # [k \in {"stay_id_value", "charttime"} |-> result[j][k]]
    /\ value_dict = result

\* the observation time of a row of sample_df, NaT when it is missing
ObservationSeconds(row) == Seconds(to_datetime(row.observation_time))

\* C30: every record returned by get_time_based_violation_dict has
\* observation_time < time < observation_time + delta, both bounds
\* exclusive: a measurement exactly at the start or at the end of the
\* observation is not returned, and neither is a row whose sample has no
\* observation time.
C30_WindowOpenBothEnds ==
    Windowed =>
        /\ \A k \in 1..Len(result) :
               /\ result[k].observation_time < result[k].charttime
               /\ result[k].charttime
                      < result[k].observation_time + Timedelta(delta_window)
        /\ \A i \in 1..Len(target_df) :
               LET t == target_df[i]
                   starts == {ObservationSeconds(sample_df[j]) :
                                 j \in {n \in 1..Len(sample_df) :
                                     sample_df[n].stay_id_value
                                         = t.stay_id_value}} \ {NaT}
               IN  (\E k \in 1..Len(result) :
                        /\ result[k].stay_id_value = t.stay_id_value
                        /\ result[k].charttime = t.charttime
                        /\ result[k].valuenum = t.valuenum)
                   <=> (/\ t.charttime # NaT
                        /\ \E o \in starts :
                               /\ o < t.charttime
                               /\ t.charttime < o + Timedelta(delta_window))

\* a sample whose observation time was loaded as text has measurements
\* exactly at the start of the observation, inside it and exactly at its
\* end: only the one inside is returned
C30_Witness ==
    /\ Windowed
    /\ Len(result) = 1
    /\ Len(sample_df) = 1
    /\ sample_df[1].observation_time.kind = "str"
    /\ \A i \in 1..Len(target_df) :
           target_df[i].stay_id_value = sample_df[1].stay_id_value
    /\ {target_df[i].charttime : i \in 1..Len(target_df)}
           = {ObservationSeconds(sample_df[1]),
              result[1].charttime,
              ObservationSeconds(sample_df[1]) + Timedelta(delta_window)}
    /\ Len(target_df) = 3

====
